---------------------------- MODULE Spec2Model ----------------------------
(***************************************************************************)
(* A model of the Arabic-language compiler: lexer (src/lexer.py), parser   *)
(* (src/parser.py), semantic analyzer (src/semantic.py), code generator    *)
(* (src/codegen.py) and the driver (src/compiler.py).                      *)
(*                                                                         *)
(* Text is modelled as sequences of Unicode code points: a Python str of   *)
(* length n is a sequence of n naturals, so that lexemes, identifiers and  *)
(* labels can be built, compared and taken apart as the code does.         *)
(***************************************************************************)
EXTENDS Integers, Sequences, FiniteSets, TLC

VARIABLES
    pc,         \* position of the driver: which stage of compile_file runs next
    inputFile,  \* the input file: NoFile, or File(text), text a code point sequence
    source,     \* Lexer.source
    pos,        \* Lexer.pos (0-based, as in the code)
    line,       \* Lexer.line
    column,     \* Lexer.column
    tokens,     \* Lexer.tokens, then Parser.tokens
    ast,        \* the Program built by Parser.parse
    assembly,   \* the text compile_file is about to write (a sequence of lines)
    stdout,     \* the progress messages compile_file has printed
    raised,     \* the exception that ended compile_file's try block, or "none"
    outFile,    \* the output file: NoFile, or the lines written to it
    success,    \* compile_file's return value
    exitCode,   \* the argument of sys.exit, or -1 while the process runs
    cpu         \* the processor that executes the emitted listing

vars == << pc, inputFile, source, pos, line, column, tokens, ast, assembly,
           stdout, raised, outFile, success, exitCode, cpu >>

(***************************************************************************)
(* Characters                                                              *)
(***************************************************************************)

\* ord() of the characters the code names literally.
Ord(ch) ==
    CASE ch = "\n" -> 10  [] ch = "\t" -> 9   [] ch = "\r" -> 13
      [] ch = " "  -> 32  [] ch = "!"  -> 33  [] ch = "("  -> 40
      [] ch = ")"  -> 41  [] ch = "*"  -> 42  [] ch = "+"  -> 43
      [] ch = ","  -> 44  [] ch = "-"  -> 45  [] ch = "/"  -> 47
      [] ch = "0"  -> 48  [] ch = "1"  -> 49  [] ch = "2"  -> 50
      [] ch = "3"  -> 51  [] ch = "4"  -> 52  [] ch = "5"  -> 53
      [] ch = "6"  -> 54  [] ch = "7"  -> 55  [] ch = "8"  -> 56
      [] ch = "9"  -> 57
      [] ch = ";"  -> 59  [] ch = "<"  -> 60  [] ch = "="  -> 61
      [] ch = ">"  -> 62  [] ch = "_"  -> 95  [] ch = "a"  -> 97
      [] ch = "b"  -> 98  [] ch = "c"  -> 99  [] ch = "d"  -> 100
      [] ch = "e"  -> 101 [] ch = "f"  -> 102 [] ch = "g"  -> 103
      [] ch = "h"  -> 104 [] ch = "i"  -> 105 [] ch = "j"  -> 106
      [] ch = "n"  -> 110 [] ch = "r"  -> 114
      [] ch = "x"  -> 120 [] ch = "y"  -> 121 [] ch = "z"  -> 122
      [] ch = "{"  -> 123 [] ch = "}"  -> 125
      [] ch = "U+00B2" -> 178   \* superscript two
      [] ch = "U+00E9" -> 233   \* e with acute
      [] ch = "U+060C" -> 1548  \* Arabic comma
      [] ch = "U+061B" -> 1563  \* Arabic semicolon
      [] ch = "U+061F" -> 1567  \* Arabic question mark
      [] ch = "U+0627" -> 1575  \* Arabic letter alef
      [] ch = "U+0663" -> 1635  \* Arabic-Indic digit three

\* str.isdigit, str.isalpha and str.isalnum of Python 3 on the code points
\* U+0000..U+00FF, U+0600..U+06FF and U+0750..U+077F.
IsDigit(c) ==
    \/ c \in 48..57
    \/ c \in {178, 179, 185}
    \/ c \in 1632..1641
    \/ c \in 1776..1785

IsAlpha(c) ==
    \/ c \in 65..90 \/ c \in 97..122
    \/ c \in {170, 181, 186}
    \/ c \in 192..214 \/ c \in 216..246 \/ c \in 248..255
    \/ c \in 1568..1610 \/ c \in 1646..1647 \/ c \in 1649..1747
    \/ c = 1749 \/ c \in 1765..1766 \/ c \in 1774..1775
    \/ c \in 1786..1788 \/ c = 1791
    \/ c \in 1872..1919

IsAlnum(c) == IsAlpha(c) \/ IsDigit(c) \/ c \in 188..190

IsWhitespace(c) == c \in {Ord(" "), Ord("\t"), Ord("\r"), Ord("\n")}

is_arabic_char_all(c) == (1536 <= c /\ c <= 1791) \/ (1872 <= c /\ c <= 1919)

is_arabic_char(c) ==
    IF c \in {1548, 1563, 1567}
    THEN FALSE
    ELSE (1536 <= c /\ c <= 1791) \/ (1872 <= c /\ c <= 1919)

(***************************************************************************)
(* Lexer                                                                   *)
(***************************************************************************)

None == << >>     \* the value of the EOF token
\* A file that does not exist, and a file with its content.
NoFile == [exists |-> FALSE, text |-> << >>]
File(text) == [exists |-> TRUE, text |-> text]

Token(type, value, ln, col) ==
    [type |-> type, value |-> value, line |-> ln, column |-> col]

\* The spellings of Lexer.KEYWORDS.
KwVar      == <<1605, 1578, 1594, 1610, 1585>>
KwIf       == <<1575, 1584, 1575>>
KwElse     == <<1608, 1575, 1604, 1575>>
KwWhile    == <<1576, 1610, 1606, 1605, 1575>>
KwFor      == <<1604, 1603, 1604>>
KwFunction == <<1583, 1575, 1604, 1577>>
KwReturn   == <<1575, 1585, 1580, 1593>>
KwPrint    == <<1575, 1591, 1576, 1593>>

KEYWORDS(ident) ==
    CASE ident = KwVar      -> "VAR"
      [] ident = KwIf       -> "IF"
      [] ident = KwElse     -> "ELSE"
      [] ident = KwWhile    -> "WHILE"
      [] ident = KwFor      -> "FOR"
      [] ident = KwFunction -> "FUNCTION"
      [] ident = KwReturn   -> "RETURN"
      [] ident = KwPrint    -> "PRINT"
      [] OTHER              -> "IDENTIFIER"

\* A lexer position: [pos, line, column].  HasChar: current_char() is not None.
LexPos(p, ln, col) == [pos |-> p, line |-> ln, column |-> col]
HasChar(src, L) == L.pos < Len(src)
current_char(src, L) == src[L.pos + 1]
HasPeek(src, L) == L.pos + 1 < Len(src)
peek_char(src, L) == src[L.pos + 2]

advance(src, L) ==
    IF L.pos < Len(src)
    THEN IF src[L.pos + 1] = Ord("\n")
         THEN LexPos(L.pos + 1, L.line + 1, 1)
         ELSE LexPos(L.pos + 1, L.line, L.column + 1)
    ELSE L

RECURSIVE skip_whitespace(_, _)
skip_whitespace(src, L) ==
    IF HasChar(src, L) /\ IsWhitespace(current_char(src, L))
    THEN skip_whitespace(src, advance(src, L))
    ELSE L

IsCommentStart(src, L) ==
    /\ HasChar(src, L) /\ current_char(src, L) = Ord("/")
    /\ HasPeek(src, L) /\ peek_char(src, L) = Ord("/")

RECURSIVE SkipToLineEnd(_, _)
SkipToLineEnd(src, L) ==
    IF HasChar(src, L) /\ current_char(src, L) # Ord("\n")
    THEN SkipToLineEnd(src, advance(src, L))
    ELSE L

skip_comment(src, L) ==
    IF IsCommentStart(src, L) THEN SkipToLineEnd(src, L) ELSE L

\* The loop of read_number: the run read so far and the position after it.
RECURSIVE ReadDigits(_, _, _)
ReadDigits(src, L, num) ==
    IF HasChar(src, L) /\ IsDigit(current_char(src, L))
    THEN ReadDigits(src, advance(src, L), Append(num, current_char(src, L)))
    ELSE [at |-> L, text |-> num]

read_number(src, L) ==
    LET r == ReadDigits(src, L, << >>)
    IN  [at |-> r.at, token |-> Token("NUMBER", r.text, r.at.line, L.column)]

IsIdentChar(c) == IsAlnum(c) \/ c = Ord("_") \/ is_arabic_char(c)

RECURSIVE ReadIdentChars(_, _, _)
ReadIdentChars(src, L, ident) ==
    IF HasChar(src, L) /\ IsIdentChar(current_char(src, L))
    THEN ReadIdentChars(src, advance(src, L), Append(ident, current_char(src, L)))
    ELSE [at |-> L, text |-> ident]

read_identifier(src, L) ==
    LET r == ReadIdentChars(src, L, << >>)
    IN  [at |-> r.at,
         token |-> Token(KEYWORDS(r.text), r.text, r.at.line, L.column)]

IsIdentStart(c) == IsAlpha(c) \/ c = Ord("_") \/ is_arabic_char(c)

\* One token of one character, and one of two.
One(src, L, type, text) ==
    [at |-> advance(src, L), token |-> Token(type, text, L.line, L.column),
     error |-> FALSE]
Two(src, L, type, text) ==
    [at |-> advance(src, advance(src, L)),
     token |-> Token(type, text, L.line, L.column), error |-> FALSE]
NoToken == Token("EOF", None, 0, 0)   \* placeholder where no token is made
LexSkipChar(L) ==
    [at |-> [L EXCEPT !.pos = @ + 1, !.column = @ + 1], token |-> NoToken,
     error |-> FALSE]
LexFail(L) == [at |-> L, token |-> NoToken, error |-> TRUE]

NextIs(src, L, c) == HasPeek(src, L) /\ peek_char(src, L) = c

\* The if/elif chain of tokenize at a character that is neither whitespace
\* nor the start of a comment.
ScanToken(src, L) ==
    LET char == current_char(src, L)
        eq   == Ord("=")
    IN  CASE IsDigit(char) ->
               [at |-> read_number(src, L).at,
                token |-> read_number(src, L).token, error |-> FALSE]
          [] ~IsDigit(char) /\ IsIdentStart(char) ->
               [at |-> read_identifier(src, L).at,
                token |-> read_identifier(src, L).token, error |-> FALSE]
          [] OTHER ->
               CASE char = Ord("+") -> One(src, L, "PLUS", <<char>>)
                 [] char = Ord("-") -> One(src, L, "MINUS", <<char>>)
                 [] char = Ord("*") -> One(src, L, "MULTIPLY", <<char>>)
                 [] char = Ord("/") -> One(src, L, "DIVIDE", <<char>>)
                 [] char = Ord("=") ->
                      IF NextIs(src, L, eq)
                      THEN Two(src, L, "EQ", <<eq, eq>>)
                      ELSE One(src, L, "ASSIGN", <<eq>>)
                 [] char = Ord("!") ->
                      IF NextIs(src, L, eq)
                      THEN Two(src, L, "NE", <<Ord("!"), eq>>)
                      ELSE LexFail(L)
                 [] char = Ord(">") ->
                      IF NextIs(src, L, eq)
                      THEN Two(src, L, "GE", <<Ord(">"), eq>>)
                      ELSE One(src, L, "GT", <<Ord(">")>>)
                 [] char = Ord("<") ->
                      IF NextIs(src, L, eq)
                      THEN Two(src, L, "LE", <<Ord("<"), eq>>)
                      ELSE One(src, L, "LT", <<Ord("<")>>)
                 [] char = Ord("(") -> One(src, L, "LPAREN", <<char>>)
                 [] char = Ord(")") -> One(src, L, "RPAREN", <<char>>)
                 [] char = Ord("{") -> One(src, L, "LBRACE", <<char>>)
                 [] char = Ord("}") -> One(src, L, "RBRACE", <<char>>)
                 [] char = Ord(";") \/ char = Ord("U+061B") ->
                      One(src, L, "SEMICOLON", <<Ord(";")>>)
                 [] char = Ord(",") \/ char = Ord("U+060C") ->
                      One(src, L, "COMMA", <<Ord(",")>>)
                 [] OTHER -> LexFail(L)

\* One iteration of the while loop of tokenize, from position L:
\* kind "end" (the break), "skip" (the continue), "token" or "error".
TokenizeIteration(src, L) ==
    LET W == skip_whitespace(src, L)
    IN  IF W.pos >= Len(src)
        THEN [kind |-> "end", at |-> W, token |-> NoToken]
        ELSE IF IsCommentStart(src, W)
        THEN [kind |-> "skip", at |-> skip_comment(src, W), token |-> NoToken]
        ELSE LET r == ScanToken(src, W)
             IN  [kind |-> IF r.error THEN "error" ELSE "token",
                  at |-> r.at, token |-> r.token]

\* The token tokenize appends after its loop.
EofTokenWrongType(ln, col) == Token("NEWLINE", None, ln, col)
EofToken(ln, col) == Token("EOF", None, ln, col)

\* The loop state of tokenize (position, tokens collected, error raised)
\* after an iteration `it` from the state S.
TokenizeAfter(S, it) ==
    IF it.kind = "error" THEN [S EXCEPT !.err = "SyntaxError"]
    ELSE [at |-> it.at, err |-> "none",
          tokens |-> IF it.kind = "token" THEN Append(S.tokens, it.token)
                                          ELSE S.tokens]

\* The while loop of tokenize on the loop state S: "step" is one iteration,
\* "two", "four" and "eight" are that many, and "loop" is iterations until
\* the loop has ended.  A loop that has ended stays as it is.
RECURSIVE TokenizeLoop(_, _, _)
TokenizeLoop(m, src, S) ==
    IF S.err # "none" \/ S.at.pos >= Len(src) THEN S
    ELSE CASE m = "step" -> TokenizeAfter(S, TokenizeIteration(src, S.at))
      [] m = "two" ->
           TokenizeLoop("step", src, TokenizeLoop("step", src, S))
      [] m = "four" ->
           TokenizeLoop("two", src, TokenizeLoop("two", src, S))
      [] m = "eight" ->
           TokenizeLoop("four", src, TokenizeLoop("four", src, S))
      [] m = "loop" ->
           TokenizeLoop("loop", src, TokenizeLoop("eight", src, S))

\* What tokenize returns from the loop state at the end of its loop.
Tokenized(S) ==
    IF S.err # "none" THEN [err |-> S.err, tokens |-> S.tokens]
    ELSE [err |-> "none",
          tokens |-> Append(S.tokens, EofToken(S.at.line, S.at.column))]

\* Lexer.tokenize as a whole: [err, tokens] after the loop has run from L
\* with `toks` collected.
TokenizeFrom(src, L, toks) ==
    Tokenized(TokenizeLoop("loop", src,
                           [at |-> L, err |-> "none", tokens |-> toks]))

tokenize(src) == TokenizeFrom(src, LexPos(0, 1, 1), << >>)

(***************************************************************************)
(* AST nodes (src/ast_nodes.py)                                            *)
(***************************************************************************)

S1(a) == << Ord(a) >>
S2(a, b) == << Ord(a), Ord(b) >>

\* str.isdecimal on the code points IsDigit covers, and int() of a digit
\* string: int() raises ValueError on a digit that is not a decimal digit.
IsDecimal(c) == c \in 48..57 \/ c \in 1632..1641 \/ c \in 1776..1785
DigitValue(c) ==
    IF c \in 48..57 THEN c - 48
    ELSE IF c \in 1632..1641 THEN c - 1632
    ELSE c - 1776
IsIntLiteral(text) ==
    Len(text) >= 1 /\ \A i \in 1..Len(text) : IsDecimal(text[i])
RECURSIVE int(_)
int(text) ==
    IF Len(text) = 0 THEN 0
    ELSE 10 * int(SubSeq(text, 1, Len(text) - 1)) + DigitValue(text[Len(text)])

Program(functions) == [type |-> "Program", functions |-> functions]
Function(name, params, body) ==
    [type |-> "Function", name |-> name, params |-> params, body |-> body]
Block(statements) == [type |-> "Block", statements |-> statements]
VarDecl(name, value) == [type |-> "VarDecl", name |-> name, value |-> value]
Assignment(name, value) ==
    [type |-> "Assignment", name |-> name, value |-> value]
IfStatement(condition, then_block, else_block) ==
    [type |-> "IfStatement", condition |-> condition,
     then_block |-> then_block, else_block |-> else_block]
WhileStatement(condition, body) ==
    [type |-> "WhileStatement", condition |-> condition, body |-> body]
ReturnStatement(value) == [type |-> "ReturnStatement", value |-> value]
PrintStatement(value) == [type |-> "PrintStatement", value |-> value]
BinaryOp(left, op, right) ==
    [type |-> "BinaryOp", left |-> left, op |-> op, right |-> right]
UnaryOp(op, value) == [type |-> "UnaryOp", op |-> op, value |-> value]
Number(value) == [type |-> "Number", value |-> int(value)]
Identifier(name) == [type |-> "Identifier", name |-> name]
FunctionCall(name, args) ==
    [type |-> "FunctionCall", name |-> name, args |-> args]
NoAst == [type |-> "None"]      \* Python's None where a node is expected

(***************************************************************************)
(* Parser (src/parser.py).  A parse function maps a parser state           *)
(*   [err, pos, out]                                                       *)
(* to the state after it: err is the exception raised ("none" while none   *)
(* was), pos is Parser.pos, and out is the stack of the values returned so *)
(* far and not yet used by the caller (the caller's locals).  A function   *)
(* applied to a state with an exception leaves it as it is: the exception  *)
(* propagates.                                                             *)
(***************************************************************************)

ParserState(p) == [err |-> "none", pos |-> p, out |-> << >>]
Raised(st) == st.err # "none"
Fail(st, exc) == [err |-> exc, pos |-> st.pos, out |-> << >>]
Push(st, v) == IF st.err # "none" THEN st ELSE [st EXCEPT !.out = Append(@, v)]
Pop(st, n) ==
    IF st.err # "none" THEN st ELSE [st EXCEPT !.out = SubSeq(@, 1, Len(@) - n)]
\* The k-th value from the top of the stack (0: the last one returned).
Top(st, k) == st.out[Len(st.out) - k]
\* A returned value the caller does not use.
Discard(st) == Pop(st, 1)
\* list.append(value) with the value on top of the stack and the list below.
AppendTop(st) ==
    IF st.err # "none" THEN st
    ELSE Push(Pop(st, 2), Append(Top(st, 1), Top(st, 0)))

current_token(ts, p) == IF p < Len(ts) THEN ts[p + 1] ELSE ts[Len(ts)]
peek_token(ts, p) == IF p + 1 < Len(ts) THEN ts[p + 2] ELSE ts[Len(ts)]
parser_advance(ts, p) == IF p < Len(ts) - 1 THEN p + 1 ELSE p

CurType(ts, st) == current_token(ts, st.pos).type
Advance(ts, st) ==
    IF st.err # "none" THEN st ELSE [st EXCEPT !.pos = parser_advance(ts, @)]

\* expect returns the token it consumed.
expect(ts, st, token_type) ==
    IF st.err # "none" THEN st
    ELSE IF CurType(ts, st) # token_type
    THEN Fail(st, "SyntaxError")
    ELSE Push(Advance(ts, st), current_token(ts, st.pos))

ComparisonTypes == { "EQ", "NE", "GT", "LT", "GE", "LE" }
AdditiveTypes == { "PLUS", "MINUS" }
MultiplicativeTypesWithPlus == { "MULTIPLY", "DIVIDE", "PLUS" }
MultiplicativeTypes == { "MULTIPLY", "DIVIDE" }

\* left = BinaryOp(left, op, right) with left, the operator token and right
\* on the stack.
MakeBinaryOp(st) ==
    IF st.err # "none" THEN st
    ELSE Push(Pop(st, 3), BinaryOp(Top(st, 2), Top(st, 1).value, Top(st, 0)))

\* op = current_token().value; advance()
TakeOperator(ts, st) ==
    IF st.err # "none" THEN st
    ELSE Advance(ts, Push(st, current_token(ts, st.pos)))

\* Number(token.value) after advance(): int() may raise ValueError.
MakeNumber(ts, st) ==
    LET token == current_token(ts, st.pos)
    IN  IF IsIntLiteral(token.value)
        THEN Push(Advance(ts, st), Number(token.value))
        ELSE Fail(Advance(ts, st), "ValueError")

MakeUnaryOp(st) ==
    IF st.err # "none" THEN st
    ELSE Push(Pop(st, 2), UnaryOp(Top(st, 1).value, Top(st, 0)))
MakeFunctionCall(st) ==
    IF st.err # "none" THEN st
    ELSE Push(Pop(st, 2), FunctionCall(Top(st, 1).value, Top(st, 0)))
MakeVarDecl(st) ==
    IF st.err # "none" THEN st
    ELSE Push(Pop(st, 2), VarDecl(Top(st, 1).value, Top(st, 0)))
MakeAssignment(st) ==
    IF st.err # "none" THEN st
    ELSE Push(Pop(st, 2), Assignment(Top(st, 1).value, Top(st, 0)))
MakeIfStatement(st) ==
    IF st.err # "none" THEN st
    ELSE Push(Pop(st, 3), IfStatement(Top(st, 2), Top(st, 1), Top(st, 0)))
MakeWhileStatement(st) ==
    IF st.err # "none" THEN st
    ELSE Push(Pop(st, 2), WhileStatement(Top(st, 1), Top(st, 0)))
MakeReturnStatement(st) ==
    IF st.err # "none" THEN st ELSE Push(Pop(st, 1), ReturnStatement(Top(st, 0)))
MakePrintStatement(st) ==
    IF st.err # "none" THEN st ELSE Push(Pop(st, 1), PrintStatement(Top(st, 0)))
MakeBlock(st) ==
    IF st.err # "none" THEN st ELSE Push(Pop(st, 1), Block(Top(st, 0)))

\* The mutually recursive methods of Parser, from parse_block down, as the
\* arms of one operator: Parser(m, ts, st) is method m applied in state st.
\* The arms named ...Loop, ParseArgs and ParseElse are the loops and the
\* conditional parts of the method they belong to, and the arms named End...,
\* IfThen, IfElse and WhileBody are the rest of a method after the call it
\* makes.
RECURSIVE Parser(_, _, _)
Parser(m, ts, st) ==
    IF st.err # "none" THEN st
    ELSE CASE m = "parse_block" ->
           LET s1 == Discard(expect(ts, st, "LBRACE"))
           IN  Parser("EndBlock", ts, Parser("BlockLoop", ts, Push(s1, << >>)))
      [] m = "EndBlock" ->       \* after the loop: expect RBRACE, return Block
           MakeBlock(Discard(expect(ts, st, "RBRACE")))
      [] m = "BlockLoop" ->      \* while current is not RBRACE: statements.append
           IF CurType(ts, st) # "RBRACE"
           THEN Parser("BlockLoop", ts,
                       AppendTop(Parser("parse_statement", ts, st)))
           ELSE st
      [] m = "parse_statement" ->
           CASE CurType(ts, st) = "VAR" -> Parser("parse_var_decl", ts, st)
             [] CurType(ts, st) = "IF" -> Parser("parse_if_statement", ts, st)
             [] CurType(ts, st) = "WHILE" ->
                  Parser("parse_while_statement", ts, st)
             [] CurType(ts, st) = "RETURN" ->
                  Parser("parse_return_statement", ts, st)
             [] CurType(ts, st) = "PRINT" ->
                  Parser("parse_print_statement", ts, st)
             [] CurType(ts, st) = "IDENTIFIER" ->
                  IF peek_token(ts, st.pos).type = "ASSIGN"
                  THEN Parser("parse_assignment", ts, st)
                  ELSE IF peek_token(ts, st.pos).type = "LPAREN"
                  THEN Parser("EndCallStatement", ts,
                              Parser("parse_function_call", ts, st))
                  ELSE Fail(st, "SyntaxError")
             [] OTHER -> Fail(st, "SyntaxError")
      [] m = "EndCallStatement" ->   \* expect SEMICOLON after the call
           Discard(expect(ts, st, "SEMICOLON"))
      [] m = "parse_var_decl" ->
           LET s1 == Discard(expect(ts, st, "VAR"))
               s2 == expect(ts, s1, "IDENTIFIER")
               s3 == Discard(expect(ts, s2, "ASSIGN"))
           IN  Parser("EndVarDecl", ts, Parser("parse_expression", ts, s3))
      [] m = "EndVarDecl" ->     \* after the value: expect SEMICOLON
           MakeVarDecl(Discard(expect(ts, st, "SEMICOLON")))
      [] m = "parse_assignment" ->
           LET s1 == expect(ts, st, "IDENTIFIER")
               s2 == Discard(expect(ts, s1, "ASSIGN"))
           IN  Parser("EndAssignment", ts, Parser("parse_expression", ts, s2))
      [] m = "EndAssignment" ->  \* after the value: expect SEMICOLON
           MakeAssignment(Discard(expect(ts, st, "SEMICOLON")))
      [] m = "parse_if_statement" ->
           LET s1 == Discard(expect(ts, st, "IF"))
               s2 == Discard(expect(ts, s1, "LPAREN"))
           IN  Parser("IfThen", ts, Parser("parse_expression", ts, s2))
      [] m = "IfThen" ->         \* after the condition: RPAREN, the then block
           Parser("IfElse", ts,
                  Parser("parse_block", ts, Discard(expect(ts, st, "RPAREN"))))
      [] m = "IfElse" ->         \* after the then block
           MakeIfStatement(Parser("ParseElse", ts, st))
      [] m = "ParseElse" ->      \* else_block = None, or the block after else
           IF CurType(ts, st) = "ELSE"
           THEN Parser("parse_block", ts, Advance(ts, st))
           ELSE Push(st, NoAst)
      [] m = "parse_while_statement" ->
           LET s1 == Discard(expect(ts, st, "WHILE"))
               s2 == Discard(expect(ts, s1, "LPAREN"))
           IN  Parser("WhileBody", ts, Parser("parse_expression", ts, s2))
      [] m = "WhileBody" ->      \* after the condition: RPAREN, the body
           MakeWhileStatement(
               Parser("parse_block", ts, Discard(expect(ts, st, "RPAREN"))))
      [] m = "parse_return_statement" ->
           LET s1 == Discard(expect(ts, st, "RETURN"))
           IN  Parser("EndReturn", ts, Parser("parse_expression", ts, s1))
      [] m = "EndReturn" ->      \* after the value: expect SEMICOLON
           MakeReturnStatement(Discard(expect(ts, st, "SEMICOLON")))
      [] m = "parse_print_statement" ->
           LET s1 == Discard(expect(ts, st, "PRINT"))
               s2 == Discard(expect(ts, s1, "LPAREN"))
           IN  Parser("EndPrint", ts, Parser("parse_expression", ts, s2))
      [] m = "EndPrint" ->       \* after the value: expect RPAREN, SEMICOLON
           MakePrintStatement(
               Discard(expect(ts, Discard(expect(ts, st, "RPAREN")),
                              "SEMICOLON")))
      [] m = "parse_expression" -> Parser("parse_comparison", ts, st)
      [] m = "parse_comparison" ->
           Parser("ComparisonLoop", ts, Parser("parse_additive", ts, st))
      [] m = "ComparisonLoop" -> \* while current is a comparison operator
           IF CurType(ts, st) \in ComparisonTypes
           THEN Parser("ComparisonLoop", ts,
                    MakeBinaryOp(Parser("parse_additive", ts,
                                        TakeOperator(ts, st))))
           ELSE st
      [] m = "parse_additive" ->
           Parser("AdditiveLoop", ts, Parser("parse_multiplicative", ts, st))
      [] m = "AdditiveLoop" ->   \* while current is + or -
           IF CurType(ts, st) \in AdditiveTypes
           THEN Parser("AdditiveLoop", ts,
                    MakeBinaryOp(Parser("parse_multiplicative", ts,
                                        TakeOperator(ts, st))))
           ELSE st
      [] m = "parse_multiplicative" ->
           Parser("MultiplicativeLoop", ts, Parser("parse_unary", ts, st))
      [] m = "MultiplicativeLoop" -> \* while current is * or /
           IF CurType(ts, st) \in MultiplicativeTypes
           THEN Parser("MultiplicativeLoop", ts,
                    MakeBinaryOp(Parser("parse_unary", ts,
                                        TakeOperator(ts, st))))
           ELSE st
      [] m = "parse_unary" ->
           IF CurType(ts, st) = "MINUS"
           THEN MakeUnaryOp(Parser("parse_unary", ts, TakeOperator(ts, st)))
           ELSE Parser("parse_primary", ts, st)
      [] m = "parse_primary" ->
           CASE CurType(ts, st) = "NUMBER" -> MakeNumber(ts, st)
             [] CurType(ts, st) = "IDENTIFIER" ->
                  IF peek_token(ts, st.pos).type = "LPAREN"
                  THEN Parser("parse_function_call", ts, st)
                  ELSE Push(Advance(ts, st),
                            Identifier(current_token(ts, st.pos).value))
             [] CurType(ts, st) = "LPAREN" ->
                  Parser("EndParen", ts,
                         Parser("parse_expression", ts, Advance(ts, st)))
             [] OTHER -> Fail(st, "SyntaxError")
      [] m = "EndParen" ->       \* after the expression: expect RPAREN
           Discard(expect(ts, st, "RPAREN"))
      [] m = "parse_function_call" ->
           LET s1 == expect(ts, st, "IDENTIFIER")
               s2 == Discard(expect(ts, s1, "LPAREN"))
           IN  Parser("EndCall", ts, Parser("ParseArgs", ts, Push(s2, << >>)))
      [] m = "EndCall" ->        \* after the arguments: expect RPAREN
           MakeFunctionCall(Discard(expect(ts, st, "RPAREN")))
      [] m = "ParseArgs" ->      \* if current is not RPAREN: the first argument
           IF CurType(ts, st) # "RPAREN"
           THEN Parser("ArgLoop", ts,
                       AppendTop(Parser("parse_expression", ts, st)))
           ELSE st
      [] m = "ArgLoop" ->        \* while current is COMMA: the next argument
           IF CurType(ts, st) = "COMMA"
           THEN Parser("ArgLoop", ts,
                    AppendTop(Parser("parse_expression", ts, Advance(ts, st))))
           ELSE st

parse_block(ts, st) == Parser("parse_block", ts, st)
parse_statement(ts, st) == Parser("parse_statement", ts, st)
parse_expression(ts, st) == Parser("parse_expression", ts, st)

\* params.append(expect(IDENTIFIER).value)
AppendParam(st) ==
    IF st.err # "none" THEN st
    ELSE Push(Pop(st, 2), Append(Top(st, 1), Top(st, 0).value))

\* The while loop of parse_function, with `params` on the stack.
RECURSIVE ParamLoop(_, _)
ParamLoop(ts, st) ==
    IF st.err # "none" THEN st
    ELSE IF CurType(ts, st) = "COMMA"
    THEN ParamLoop(ts, AppendParam(expect(ts, Advance(ts, st), "IDENTIFIER")))
    ELSE st

ParseParams(ts, st) ==
    IF st.err # "none" THEN st
    ELSE IF CurType(ts, st) # "RPAREN"
    THEN ParamLoop(ts, AppendParam(expect(ts, st, "IDENTIFIER")))
    ELSE st

MakeFunction(st) ==
    IF st.err # "none" THEN st
    ELSE Push(Pop(st, 3), Function(Top(st, 2).value, Top(st, 1), Top(st, 0)))

parse_function(ts, st) ==
    LET s1 == Discard(expect(ts, st, "FUNCTION"))
        s2 == expect(ts, s1, "IDENTIFIER")
        s3 == Discard(expect(ts, s2, "LPAREN"))
        s4 == ParseParams(ts, Push(s3, << >>))
        s5 == Discard(expect(ts, s4, "RPAREN"))
        s6 == parse_block(ts, s5)
    IN  MakeFunction(s6)

\* The while loop of parse, with `functions` on the stack.
RECURSIVE ProgramLoop(_, _)
ProgramLoop(ts, st) ==
    IF st.err # "none" THEN st
    ELSE IF CurType(ts, st) # "EOF"
    THEN ProgramLoop(ts, AppendTop(parse_function(ts, st)))
    ELSE st

\* Parser(tokens).parse(): [err, node].
parse(ts) ==
    LET st == ProgramLoop(ts, Push(ParserState(0), << >>))
    IN  IF Raised(st) THEN [err |-> st.err, node |-> NoAst]
        ELSE [err |-> "none", node |-> Program(Top(st, 0))]

(***************************************************************************)
(* Bounds and input sets                                                   *)
(***************************************************************************)

MaxSrcLen == 3      \* longest source text given to the lexer alone

SeqsUpTo(S, n) == UNION { [1..k -> S] : k \in 0..n }

\* The characters of the lexer's inputs: whitespace, operator and comment
\* characters, ASCII and Arabic letters and digits, the three excluded Arabic
\* punctuation marks, and a letter and a digit that are neither ASCII nor
\* Arabic.
LexAlphabet ==
    { Ord("\n"), Ord(" "), Ord("!"), Ord(","), Ord("/"), Ord("1"), Ord(";"),
      Ord("="),
      Ord("_"), Ord("a"), Ord("U+00B2"), Ord("U+00E9"), Ord("U+060C"),
      Ord("U+061B"), Ord("U+061F"), Ord("U+0627"), 1584, Ord("U+0663") }

LexSources == SeqsUpTo(LexAlphabet, MaxSrcLen)

CpuOff == [on |-> FALSE]

(***************************************************************************)
(* The driver: compile_file and main                                       *)
(***************************************************************************)

Progress ==
    << "[1/4] Lexical analysis...", "[2/4] Parsing...",
       "[3/4] Semantic analysis...", "[4/4] Code generation...",
       "Compilation successful!" >>

\* An exception leaves the try block: the handler returns False.
Raise(exc) ==
    /\ raised' = exc
    /\ success' = FALSE
    /\ pc' = "return"

\* One iteration of the while loop of Lexer.tokenize.
LexStep ==
    /\ pc = "lex"
    /\ pos < Len(source)
    /\ LET it == TokenizeIteration(source, LexPos(pos, line, column))
       IN  /\ pos' = it.at.pos
           /\ line' = it.at.line
           /\ column' = it.at.column
           /\ tokens' = IF it.kind = "token" THEN Append(tokens, it.token)
                                             ELSE tokens
           /\ IF it.kind = "error"
              THEN Raise("SyntaxError")
              ELSE UNCHANGED << pc, raised, success >>
    /\ UNCHANGED << inputFile, source, ast, assembly, stdout, outFile,
                    exitCode, cpu >>

\* The loop of tokenize has ended: the EOF token is appended and the tokens
\* are returned to compile_file, which announces the parser.
LexFinish ==
    /\ pc = "lex"
    /\ pos >= Len(source)
    /\ tokens' = Append(tokens, EofToken(line, column))
    /\ stdout' = Append(stdout, Progress[2])
    /\ pc' = "parse"
    /\ UNCHANGED << inputFile, source, pos, line, column, ast, assembly,
                    raised, outFile, success, exitCode, cpu >>

(***************************************************************************)
(* The lexer alone, on every short source text                             *)
(***************************************************************************)

InitLexer ==
    /\ pc = "lex"
    /\ inputFile = NoFile
    /\ source \in LexSources
    /\ pos = 0 /\ line = 1 /\ column = 1
    /\ tokens = << >>
    /\ ast = NoAst
    /\ assembly = << >>
    /\ stdout = << Progress[1] >>
    /\ raised = "none"
    /\ outFile = NoFile
    /\ success = FALSE
    /\ exitCode = -1
    /\ cpu = CpuOff

NextLexer == LexStep \/ LexFinish

SpecLexer == InitLexer /\ [][NextLexer]_vars

IsEofTerminated(toks) ==
    /\ Len(toks) >= 1
    /\ toks[Len(toks)].type = "EOF"
    /\ \A i \in 1..(Len(toks) - 1) : toks[i].type # "EOF"

\* C7: whenever tokenize returns (the lexer accepted its input), the token
\* list ends with an EOF token and holds no other EOF token.
C7_ExactlyOneEof == (pc = "parse") => IsEofTerminated(tokens)

\* tokenize returned for a text that ends inside a // comment which follows
\* a token, and for the empty text.
C7_Witness ==
    /\ pc = "parse"
    /\ Len(source) = 3
    /\ source[2] = Ord("/") /\ source[3] = Ord("/")
    /\ Len(tokens) = 2

IdentTypes ==
    { "IDENTIFIER", "VAR", "IF", "ELSE", "WHILE", "FOR", "FUNCTION", "RETURN",
      "PRINT" }

IsAsciiLetter(c) == c \in 65..90 \/ c \in 97..122
IsAsciiDigit(c) == c \in 48..57
InArabicBlocks(c) == c \in 1536..1791 \/ c \in 1872..1919

\* C8: every character of an identifier or keyword lexeme is an ASCII letter,
\* an underscore, an ASCII digit or an Arabic character; the first is not a
\* digit; none is U+060C, U+061B or U+061F.
C8_IdentifierChars ==
    \A i \in 1..Len(tokens) :
        tokens[i].type \in IdentTypes =>
            LET v == tokens[i].value
            IN  /\ Len(v) >= 1
                /\ ~IsAsciiDigit(v[1])
                /\ \A k \in 1..Len(v) :
                      /\ \/ IsAsciiLetter(v[k]) \/ v[k] = Ord("_")
                         \/ IsAsciiDigit(v[k]) \/ InArabicBlocks(v[k])
                      /\ v[k] \notin {1548, 1563, 1567}

\* The texts obtained from src by writing some occurrences of ; as U+061B
\* and some occurrences of , as U+060C.
ArabicPunctuationVariants(src) ==
    { v \in [1..Len(src) -> {src[i] : i \in 1..Len(src)} \cup {1548, 1563}] :
        \A i \in 1..Len(src) :
            \/ v[i] = src[i]
            \/ src[i] = Ord(";") /\ v[i] = Ord("U+061B")
            \/ src[i] = Ord(",") /\ v[i] = Ord("U+060C") }

\* C11: a text and the same text with ; written as U+061B or , written as
\* U+060C are lexed alike: the lexer rejects both or returns for both the
\* same tokens (types, lexemes, lines, columns), and the parser then gives
\* the same outcome and the same tree for both.
C11_ArabicPunctuation ==
    /\ (pc = "parse") =>
          \A v \in ArabicPunctuationVariants(source) :
              /\ tokenize(v).err = "none"
              /\ tokenize(v).tokens = tokens
              /\ parse(tokenize(v).tokens) = parse(tokens)
    /\ (raised = "SyntaxError") =>
          \A v \in ArabicPunctuationVariants(source) :
              tokenize(v).err # "none"

\* The lexer returned for a text holding both ; and , after an identifier:
\* the text has four variants.
C11_Witness ==
    /\ pc = "parse"
    /\ source = << Ord("a"), Ord(";"), Ord(",") >>
    /\ Cardinality(ArabicPunctuationVariants(source)) = 4
    /\ Len(tokens) = 4
    /\ tokens[2].type = "SEMICOLON" /\ tokens[3].type = "COMMA"

\* C12: every NUMBER token is a maximal run of ASCII digits 0-9: its lexeme
\* is not empty, holds ASCII digits only, and the token that follows it on
\* the same line, if it is a NUMBER too, does not start where it ends.
C12_NumberTokensAsciiDigits ==
    \A i \in 1..Len(tokens) :
        tokens[i].type = "NUMBER" =>
            /\ Len(tokens[i].value) >= 1
            /\ \A k \in 1..Len(tokens[i].value) :
                  IsAsciiDigit(tokens[i].value[k])
            /\ (/\ i < Len(tokens)
                /\ tokens[i + 1].type = "NUMBER"
                /\ tokens[i + 1].line = tokens[i].line)
               => tokens[i + 1].column > tokens[i].column + Len(tokens[i].value)

\* The character the next iteration of the loop looks at, after whitespace,
\* begins no token: a ! without = after it, or a character no branch takes.
AtBadCharacter ==
    LET W == skip_whitespace(source, LexPos(pos, line, column))
    IN  /\ W.pos < Len(source)
        /\ \/ current_char(source, W) = Ord("!") /\ ~NextIs(source, W, Ord("="))
           \/ current_char(source, W) = Ord("U+061F")

\* C19: the lexer terminates: every iteration of the loop of tokenize raises
\* an error or moves the scan position strictly forward, and never beyond
\* the end of the text, so the loop runs at most once per character and the
\* tokens made are no more than the characters consumed; at a lone ! or a
\* character that starts no token the iteration raises the error instead of
\* skipping the character.
C19_LexerTerminates ==
    [][ (pc = "lex" /\ pos < Len(source)) =>
           /\ raised' = "SyntaxError" \/ pos' > pos
           /\ pos' <= Len(source)
           /\ Len(tokens') <= pos'
           /\ AtBadCharacter => (raised' = "SyntaxError" /\ tokens' = tokens)
      ]_vars

\* The loop made a token, skipped a blank and raised the error at a lone !.
C19_Witness ==
    /\ raised = "SyntaxError"
    /\ source = << Ord("a"), Ord(" "), Ord("!") >>
    /\ Len(tokens) = 1
    /\ pos = 2

(***************************************************************************)
(* The parser alone, on the tokens of every short expression               *)
(***************************************************************************)

MaxExprLen == 5     \* longest expression text given to the parser

ExprAlphabet ==
    { Ord("a"), Ord("b"), Ord("+"), Ord("-"), Ord("*"), Ord("<") }

\* The text  <function> f(){<return> e;}  around an expression text e.
ExprPrefix == KwFunction \o << Ord(" "), Ord("f"), Ord("("), Ord(")"), Ord("{") >>
                  \o KwReturn \o << Ord(" ") >>
ExprSuffix == << Ord(";"), Ord("}") >>
ExprSources ==
    { ExprPrefix \o e \o ExprSuffix : e \in SeqsUpTo(ExprAlphabet, MaxExprLen) }

\* compile_file hands the tokens to Parser.parse and announces the analyzer.
ParseStage ==
    /\ pc = "parse"
    /\ LET r == parse(tokens)
       IN  IF r.err = "none"
           THEN /\ ast' = r.node
                /\ stdout' = Append(stdout, Progress[3])
                /\ pc' = "analyze"
                /\ UNCHANGED << raised, success >>
           ELSE /\ Raise(r.err)
                /\ UNCHANGED << ast, stdout >>
    /\ UNCHANGED << inputFile, source, pos, line, column, tokens, assembly,
                    outFile, exitCode, cpu >>

InitParser ==
    /\ pc = "parse"
    /\ inputFile = NoFile
    /\ source \in ExprSources
    /\ tokenize(source).err = "none"
    /\ tokens = tokenize(source).tokens
    /\ pos = Len(source) /\ line = 1 /\ column = Len(source) + 1
    /\ ast = NoAst
    /\ assembly = << >>
    /\ stdout = << Progress[1], Progress[2] >>
    /\ raised = "none"
    /\ outFile = NoFile
    /\ success = FALSE
    /\ exitCode = -1
    /\ cpu = CpuOff

NextParser == ParseStage

SpecParser == InitParser /\ [][NextParser]_vars

\* The expression of the single return statement of the parsed program.
ParsedExpr == ast.functions[1].body.statements[1].value
\* The tokens of that expression: those between the first seven tokens
\* (function f ( ) { return) and the last three (; } EOF).
ExprTokens == SubSeq(tokens, 7, Len(tokens) - 3)

\* Precedence level of a binary operator lexeme.
Level(op) ==
    CASE op \in { S1("*"), S1("/") } -> 3
      [] op \in { S1("+"), S1("-") } -> 2
      [] OTHER -> 1

\* The lexemes of a tree read left to right.
RECURSIVE Flatten(_)
Flatten(e) ==
    CASE e.type = "BinaryOp" -> Flatten(e.left) \o << e.op >> \o Flatten(e.right)
      [] e.type = "UnaryOp"  -> << e.op >> \o Flatten(e.value)
      [] e.type = "Identifier" -> << e.name >>
      [] OTHER -> << >>

\* Every binary node's left child binds at least as tightly as the node, its
\* right child strictly tighter, and a unary minus applies to no binary node.
RECURSIVE WellNested(_)
WellNested(e) ==
    CASE e.type = "BinaryOp" ->
           /\ e.left.type = "BinaryOp" => Level(e.left.op) >= Level(e.op)
           /\ e.right.type = "BinaryOp" => Level(e.right.op) > Level(e.op)
           /\ WellNested(e.left) /\ WellNested(e.right)
      [] e.type = "UnaryOp" -> e.value.type # "BinaryOp" /\ WellNested(e.value)
      [] OTHER -> TRUE

Lexemes(toks) == [i \in 1..Len(toks) |-> toks[i].value]
IdA == Identifier(S1("a"))
IdB == Identifier(S1("b"))
Text(e) == ExprPrefix \o e \o ExprSuffix

\* C9: an expression without parentheses is parsed into the one tree that
\* keeps the operands in order, makes every binary operator left-associative
\* and ranks comparison below additive below multiplicative below unary; in
\* particular a+b*a has * as the right child of +, a*b+a has * as the left
\* child of +, a-b-a is (a-b)-a, a<b+a has + as the right child of <, and
\* --a is the negation of the negation of a.
C9_Precedence ==
    (pc = "analyze") =>
        /\ Flatten(ParsedExpr) = Lexemes(ExprTokens)
        /\ WellNested(ParsedExpr)
        /\ source = Text(<<Ord("a"), Ord("+"), Ord("b"), Ord("*"), Ord("a")>>) =>
             ParsedExpr = BinaryOp(IdA, S1("+"), BinaryOp(IdB, S1("*"), IdA))
        /\ source = Text(<<Ord("a"), Ord("*"), Ord("b"), Ord("+"), Ord("a")>>) =>
             ParsedExpr = BinaryOp(BinaryOp(IdA, S1("*"), IdB), S1("+"), IdA)
        /\ source = Text(<<Ord("a"), Ord("-"), Ord("b"), Ord("-"), Ord("a")>>) =>
             ParsedExpr = BinaryOp(BinaryOp(IdA, S1("-"), IdB), S1("-"), IdA)
        /\ source = Text(<<Ord("a"), Ord("<"), Ord("b"), Ord("+"), Ord("a")>>) =>
             ParsedExpr = BinaryOp(IdA, S1("<"), BinaryOp(IdB, S1("+"), IdA))
        /\ source = Text(<<Ord("-"), Ord("-"), Ord("a")>>) =>
             ParsedExpr = UnaryOp(S1("-"), UnaryOp(S1("-"), IdA))

\* The parser has accepted a + b * a.
C9_Witness ==
    /\ pc = "analyze"
    /\ source = Text(<<Ord("a"), Ord("+"), Ord("b"), Ord("*"), Ord("a")>>)
    /\ ParsedExpr.type = "BinaryOp"
    /\ ParsedExpr.right.type = "BinaryOp"

(***************************************************************************)
(* semantic.py: SymbolTable and SemanticAnalyzer                           *)
(***************************************************************************)

\* The analyzer's fields: the keys of self.functions, the symbols of
\* self.current_scope and of its parent self.global_scope, and the exception
\* that has left the method being run ("none" while none has).
AnalyzerInit ==
    [functions |-> {}, symbols |-> {}, global_symbols |-> {}, err |-> "none"]

\* self.error(msg): raise SemanticError(msg)
error(A) == [A EXCEPT !.err = "SemanticError"]

\* SymbolTable.define on the current scope
define(A, name) ==
    IF A.err # "none" THEN A
    ELSE IF name \in A.symbols THEN [A EXCEPT !.err = "NameError"]
    ELSE [A EXCEPT !.symbols = @ \cup {name}]

existsAnything(A, name) == TRUE
\* SymbolTable.exists on the current scope: its symbols, then its parent's
exists(A, name) == name \in A.symbols \/ name \in A.global_symbols

\* analyze_block, analyze_statement and analyze_expression as the arms of one
\* operator; "statements" and "args" are their for loops over a list.
RECURSIVE SemanticAnalyzer(_, _, _)
SemanticAnalyzer(m, A, node) ==
    IF A.err # "none" THEN A
    ELSE CASE m = "analyze_block" ->
           SemanticAnalyzer("statements", A, node.statements)
      [] m = "statements" ->
           IF node = << >> THEN A
           ELSE SemanticAnalyzer("statements",
                    SemanticAnalyzer("analyze_statement", A, Head(node)),
                    Tail(node))
      [] m = "analyze_statement" ->
           CASE node.type = "VarDecl" ->
                  define(SemanticAnalyzer("analyze_expression", A, node.value),
                         node.name)
             [] node.type = "Assignment" ->
                  IF ~exists(A, node.name) THEN error(A)
                  ELSE SemanticAnalyzer("analyze_expression", A, node.value)
             [] node.type = "IfStatement" ->
                  LET A1 == SemanticAnalyzer("analyze_expression", A,
                                             node.condition)
                      A2 == SemanticAnalyzer("analyze_block", A1,
                                             node.then_block)
                  IN  IF node.else_block.type # "None"
                      THEN SemanticAnalyzer("analyze_block", A2,
                                            node.else_block)
                      ELSE A2
             [] node.type = "WhileStatement" ->
                  SemanticAnalyzer("analyze_block",
                      SemanticAnalyzer("analyze_expression", A, node.condition),
                      node.body)
             [] node.type = "ReturnStatement" ->
                  SemanticAnalyzer("analyze_expression", A, node.value)
             [] node.type = "PrintStatement" ->
                  SemanticAnalyzer("analyze_expression", A, node.value)
             [] node.type = "FunctionCall" ->
                  IF node.name \notin A.functions THEN error(A)
                  ELSE SemanticAnalyzer("args", A, node.args)
             [] OTHER -> A
      [] m = "analyze_expression" ->
           CASE node.type = "Number" -> A
             [] node.type = "Identifier" ->
                  IF ~exists(A, node.name) THEN error(A) ELSE A
             [] node.type = "BinaryOp" ->
                  SemanticAnalyzer("analyze_expression",
                      SemanticAnalyzer("analyze_expression", A, node.left),
                      node.right)
             [] node.type = "UnaryOp" ->
                  SemanticAnalyzer("analyze_expression", A, node.value)
             [] node.type = "FunctionCall" ->
                  IF node.name \notin A.functions THEN error(A)
                  ELSE SemanticAnalyzer("args", A, node.args)
             [] OTHER -> A
      [] m = "args" ->
           IF node = << >> THEN A
           ELSE SemanticAnalyzer("args",
                    SemanticAnalyzer("analyze_expression", A, Head(node)),
                    Tail(node))

analyze_block(A, block) == SemanticAnalyzer("analyze_block", A, block)

\* for param in func.params: self.current_scope.define(param)
RECURSIVE DefineParams(_, _)
DefineParams(A, params) ==
    IF params = << >> THEN A
    ELSE DefineParams(define(A, Head(params)), Tail(params))

analyze_function_shared(A, func) ==
    analyze_block(DefineParams(A, func.params), func.body)

analyze_function(A, func) ==
    LET A1 == [A EXCEPT !.symbols = {}]       \* SymbolTable(self.global_scope)
        A2 == DefineParams(A1, func.params)
        A3 == analyze_block(A2, func.body)
    IN  IF A3.err # "none" THEN A3
        ELSE [A3 EXCEPT !.symbols = A.global_symbols]

\* First pass of analyze: collect the function definitions.
RECURSIVE CollectFunctions(_, _)
CollectFunctions(A, funcs) ==
    IF A.err # "none" \/ funcs = << >> THEN A
    ELSE IF Head(funcs).name \in A.functions THEN error(A)
    ELSE CollectFunctions([A EXCEPT !.functions = @ \cup {Head(funcs).name}],
                          Tail(funcs))

\* Second pass of analyze: analyze each function.
RECURSIVE AnalyzeFunctions(_, _)
AnalyzeFunctions(A, funcs) ==
    IF A.err # "none" \/ funcs = << >> THEN A
    ELSE AnalyzeFunctions(analyze_function(A, Head(funcs)), Tail(funcs))

analyze(program) ==
    AnalyzeFunctions(CollectFunctions(AnalyzerInit, program.functions),
                     program.functions)

(***************************************************************************)
(* codegen.py: CodeGenerator                                               *)
(***************************************************************************)

\* An emitted line: its mnemonic (or what kind of line it is) and up to two
\* operands.  An operand is a register, an immediate, the stack slot
\* [rbp+n], the byte BYTE PTR [r] or a symbol; a symbol's text is kept as
\* code points, so that two labels are the same exactly when their texts are.
Reg(r)     == [k |-> "reg",  r |-> r,     n |-> 0, s |-> << >>]
Imm(n)     == [k |-> "imm",  r |-> "",    n |-> n, s |-> << >>]
Mem(n)     == [k |-> "mem",  r |-> "rbp", n |-> n, s |-> << >>]
BytePtr(r) == [k |-> "byte", r |-> r,     n |-> 0, s |-> << >>]
Sym(s)     == [k |-> "sym",  r |-> "",    n |-> 0, s |-> s]
NoArg      == [k |-> "none", r |-> "",    n |-> 0, s |-> << >>]
Line(op, a, b) == [op |-> op, a |-> a, b |-> b]
Ins0(op) == Line(op, NoArg, NoArg)
Ins1(op, a) == Line(op, a, NoArg)
LabelDef(name) == Line("label", Sym(name), NoArg)     \* the line  name:
Blank == Ins0("")

Main        == <<1585, 1574, 1610, 1587, 1610, 1577>>
StartName   == <<95, 115, 116, 97, 114, 116>>                    \* _start
PrintNumber == <<112, 114, 105, 110, 116, 95, 110, 117, 109, 98, 101, 114>>
FmtInt      == <<102, 109, 116, 95, 105, 110, 116>>              \* fmt_int
ElsePrefix  == <<101, 108, 115, 101>>                            \* else
EndifPrefix == <<101, 110, 100, 105, 102>>                       \* endif
WhileStartPrefix == <<119, 104, 105, 108, 101, 95, 115, 116, 97, 114, 116>>
WhileEndPrefix   == <<119, 104, 105, 108, 101, 95, 101, 110, 100>>

\* str(n) for n >= 0: the decimal digits of n.
RECURSIVE Str(_)
Str(n) == IF n < 10 THEN << 48 + n >> ELSE Str(n \div 10) \o << 48 + (n % 10) >>

\* CodeGenerator.__init__, with the exception that has left generate.
GeneratorInit ==
    [output |-> << >>, label_counter |-> 0, local_vars |-> << >>,
     stack_offset |-> 0, err |-> "none"]

emit(g, code) ==
    IF g.err # "none" THEN g ELSE [g EXCEPT !.output = Append(@, code)]

\* emit called once for each of the lines, in order.
EmitAll(g, codes) ==
    IF g.err # "none" THEN g ELSE [g EXCEPT !.output = @ \o codes]

new_label_again(g, prefix) == [label |-> prefix \o Str(g.label_counter), g |-> g]

\* new_label: the label made of the prefix and the counter, and the
\* generator with the counter advanced.
new_label(g, prefix) ==
    [label |-> prefix \o Str(g.label_counter),
     g |-> [g EXCEPT !.label_counter = @ + 1]]

allocate_local_same(g, name) ==
    [g EXCEPT !.local_vars = [v \in DOMAIN g.local_vars \cup {name} |->
                                 IF v = name THEN g.stack_offset - 8
                                 ELSE g.local_vars[v]]]

\* allocate_local: the new offset is stack_offset of the result.
allocate_local(g, name) ==
    LET off == g.stack_offset - 8
    IN  [g EXCEPT !.stack_offset = off,
                  !.local_vars = [v \in DOMAIN g.local_vars \cup {name} |->
                                     IF v = name THEN off ELSE g.local_vars[v]]]

\* get_var_location: the slot of a known name, NameError for another.
get_var_location(g, name) == Mem(g.local_vars[name])
VarKnown(g, name) == name \in DOMAIN g.local_vars
VarNotFound(g) == IF g.err # "none" THEN g ELSE [g EXCEPT !.err = "NameError"]

param_registers == << "rdi", "rsi", "rdx", "rcx", "r8", "r9" >>

SetCCSwapped(cc) ==
    << Line("cmp", Reg("rbx"), Reg("rax")), Ins1(cc, Reg("al")),
       Line("movzx", Reg("rax"), Reg("al")) >>

SetCC(cc) ==
    << Line("cmp", Reg("rax"), Reg("rbx")), Ins1(cc, Reg("al")),
       Line("movzx", Reg("rax"), Reg("al")) >>

\* The lines that perform a binary operation on rax and rbx.
OperationLines(op) ==
    CASE op = S1("+") -> << Line("add", Reg("rax"), Reg("rbx")) >>
      [] op = S1("-") -> << Line("sub", Reg("rax"), Reg("rbx")) >>
      [] op = S1("*") -> << Line("imul", Reg("rax"), Reg("rbx")) >>
      [] op = S1("/") -> << Ins0("cqo"), Ins1("idiv", Reg("rbx")) >>
      [] op = S2("=", "=") -> SetCC("sete")
      [] op = S2("!", "=") -> SetCC("setne")
      [] op = S1(">") -> SetCC("setg")
      [] op = S1("<") -> SetCC("setl")
      [] op = S2(">", "=") -> SetCC("setge")
      [] op = S2("<", "=") -> SetCC("setle")
      [] OTHER -> << >>

PopLinesBackwards(n) ==
    [i \in 1..(IF n < 6 THEN n ELSE 6) |->
        Ins1("pop", Reg(param_registers[(IF n < 6 THEN n ELSE 6) + 1 - i]))]

\* for i in range(len(call.args)): if i < 6: pop param_registers[i]
PopLines(n) ==
    [i \in 1..(IF n < 6 THEN n ELSE 6) |-> Ins1("pop", Reg(param_registers[i]))]

Reverse(seq) == [i \in 1..Len(seq) |-> seq[Len(seq) + 1 - i]]

generate_print_int(g) ==
    EmitAll(g, << Ins0("# Print integer in rax"),
                  Line("mov", Reg("rdi"), Reg("rax")),
                  Ins1("call", Sym(PrintNumber)) >>)

LeaveLines ==
    << Line("mov", Reg("rsp"), Reg("rbp")), Ins1("pop", Reg("rbp")),
       Ins0("ret") >>

\* generate_block, generate_statement, generate_expression and
\* generate_function_call as the arms of one operator; "statements" and
\* "push_args" are their for loops over a list.
RECURSIVE CodeGenerator(_, _, _)
CodeGenerator(m, g, node) ==
    IF g.err # "none" THEN g
    ELSE CASE m = "generate_block" ->
           CodeGenerator("statements", g, node.statements)
      [] m = "statements" ->
           IF node = << >> THEN g
           ELSE CodeGenerator("statements",
                    CodeGenerator("generate_statement", g, Head(node)),
                    Tail(node))
      [] m = "generate_statement" ->
           CASE node.type = "VarDecl" ->
                  LET g1 == allocate_local(g, node.name)
                      g2 == CodeGenerator("generate_expression", g1, node.value)
                  IN  emit(g2, Line("mov", Mem(g1.stack_offset), Reg("rax")))
             [] node.type = "Assignment" ->
                  LET g1 == CodeGenerator("generate_expression", g, node.value)
                  IN  IF VarKnown(g1, node.name)
                      THEN emit(g1, Line("mov", get_var_location(g1, node.name),
                                         Reg("rax")))
                      ELSE VarNotFound(g1)
             [] node.type = "IfStatement" ->
                  LET l1 == new_label(g, ElsePrefix)
                      l2 == new_label(l1.g, EndifPrefix)
                      g1 == CodeGenerator("generate_expression", l2.g,
                                          node.condition)
                      g2 == EmitAll(g1, << Line("cmp", Reg("rax"), Imm(0)),
                                           Ins1("je", Sym(l1.label)) >>)
                      g3 == CodeGenerator("generate_block", g2, node.then_block)
                      g4 == EmitAll(g3, << Ins1("jmp", Sym(l2.label)),
                                           LabelDef(l1.label) >>)
                      g5 == IF node.else_block.type # "None"
                            THEN CodeGenerator("generate_block", g4,
                                               node.else_block)
                            ELSE g4
                  IN  emit(g5, LabelDef(l2.label))
             [] node.type = "WhileStatement" ->
                  LET l1 == new_label(g, WhileStartPrefix)
                      l2 == new_label(l1.g, WhileEndPrefix)
                      g1 == emit(l2.g, LabelDef(l1.label))
                      g2 == CodeGenerator("generate_expression", g1,
                                          node.condition)
                      g3 == EmitAll(g2, << Line("cmp", Reg("rax"), Imm(0)),
                                           Ins1("je", Sym(l2.label)) >>)
                      g4 == CodeGenerator("generate_block", g3, node.body)
                  IN  EmitAll(g4, << Ins1("jmp", Sym(l1.label)),
                                     LabelDef(l2.label) >>)
             [] node.type = "ReturnStatement" ->
                  EmitAll(CodeGenerator("generate_expression", g, node.value),
                          LeaveLines)
             [] node.type = "PrintStatement" ->
                  generate_print_int(
                      CodeGenerator("generate_expression", g, node.value))
             [] node.type = "FunctionCall" ->
                  CodeGenerator("generate_function_call", g, node)
             [] OTHER -> g
      [] m = "generate_expression" ->
           CASE node.type = "Number" ->
                  emit(g, Line("mov", Reg("rax"), Imm(node.value)))
             [] node.type = "Identifier" ->
                  IF VarKnown(g, node.name)
                  THEN emit(g, Line("mov", Reg("rax"),
                                    get_var_location(g, node.name)))
                  ELSE VarNotFound(g)
             [] node.type = "BinaryOp" ->
                  LET g1 == CodeGenerator("generate_expression", g, node.right)
                      g2 == emit(g1, Ins1("push", Reg("rax")))
                      g3 == CodeGenerator("generate_expression", g2, node.left)
                      g4 == emit(g3, Ins1("pop", Reg("rbx")))
                  IN  EmitAll(g4, OperationLines(node.op))
             [] node.type = "UnaryOp" ->
                  LET g1 == CodeGenerator("generate_expression", g, node.value)
                  IN  IF node.op = S1("-")
                      THEN emit(g1, Ins1("neg", Reg("rax")))
                      ELSE g1
             [] node.type = "FunctionCall" ->
                  CodeGenerator("generate_function_call", g, node)
             [] OTHER -> g
      [] m = "generate_function_call" ->
           LET g1 == CodeGenerator("push_args", g, Reverse(node.args))
               g2 == EmitAll(g1, PopLines(Len(node.args)))
           IN  emit(g2, Ins1("call", Sym(node.name)))
      [] m = "push_args" ->      \* for arg in reversed(call.args)
           IF node = << >> THEN g
           ELSE CodeGenerator("push_args",
                    emit(CodeGenerator("generate_expression", g, Head(node)),
                         Ins1("push", Reg("rax"))),
                    Tail(node))

generate_block(g, block) == CodeGenerator("generate_block", g, block)

\* for i, param in enumerate(func.params): the first six get a slot.
RECURSIVE StoreParams(_, _, _)
StoreParams(g, params, i) ==
    IF i >= Len(params) THEN g
    ELSE IF i < Len(param_registers)
    THEN LET g1 == allocate_local(g, params[i + 1])
         IN  StoreParams(
                 emit(g1, Line("mov", Mem(g1.stack_offset),
                               Reg(param_registers[i + 1]))),
                 params, i + 1)
    ELSE StoreParams(g, params, i + 1)

enter_function_keep(g) == g

\* The first statements of generate_function: the per-function state.
enter_function(g) == [g EXCEPT !.local_vars = << >>, !.stack_offset = 0]

generate_function(g, func) ==
    LET g0 == enter_function(g)
        g1 == EmitAll(g0, << Blank, LabelDef(func.name),
                             Ins1("push", Reg("rbp")),
                             Line("mov", Reg("rbp"), Reg("rsp")),
                             Line("sub", Reg("rsp"), Imm(256)) >>)
        g2 == StoreParams(g1, func.params, 0)
        g3 == generate_block(g2, func.body)
    IN  EmitAll(g3, LeaveLines)

RECURSIVE GenerateFunctions(_, _)
GenerateFunctions(g, funcs) ==
    IF g.err # "none" \/ funcs = << >> THEN g
    ELSE GenerateFunctions(generate_function(g, Head(funcs)), Tail(funcs))

\* generate: the generator after the last emit; its output is the listing.
generate(program) ==
    LET g1 == EmitAll(GeneratorInit,
                      << Ins0(".intel_syntax noprefix"), Blank,
                         Ins0(".section .data"),
                         Ins1(".asciz", Sym(FmtInt)),
                         Ins0(".section .text"),
                         Ins1(".global", Sym(StartName)) >>)
        g2 == GenerateFunctions(g1, program.functions)
    IN  EmitAll(g2, << Blank, LabelDef(StartName), Ins1("call", Sym(Main)),
                       Line("mov", Reg("rdi"), Reg("rax")),
                       Line("mov", Reg("rax"), Imm(60)), Ins0("syscall") >>)

ConvertDigits ==
    <<46, 99, 111, 110, 118, 101, 114, 116, 95, 100, 105, 103, 105, 116, 115>>
DigitLoop == <<46, 100, 105, 103, 105, 116, 95, 108, 111, 111, 112>>
PrintLoop == <<46, 112, 114, 105, 110, 116, 95, 108, 111, 111, 112>>
EndPrint  == <<46, 101, 110, 100, 95, 112, 114, 105, 110, 116>>

\* add_print_helper: the lines of the helper text.
add_print_helper ==
    << Blank,
       LabelDef(PrintNumber),
       Ins1("push", Reg("rbp")),
       Line("mov", Reg("rbp"), Reg("rsp")),
       Line("sub", Reg("rsp"), Imm(32)),
       Blank,
       Line("mov", Reg("rax"), Reg("rdi")),
       Line("mov", Reg("rcx"), Imm(10)),
       Line("lea", Reg("rsi"), Mem(-32)),
       Line("mov", BytePtr("rsi"), Imm(10)),
       Ins1("inc", Reg("rsi")),
       Blank,
       Line("test", Reg("rax"), Reg("rax")),
       Ins1("jns", Sym(ConvertDigits)),
       Ins1("neg", Reg("rax")),
       Ins1("push", Reg("rax")),
       Line("mov", Reg("rax"), Imm(45)),
       Line("mov", BytePtr("rsi"), Reg("al")),
       Ins1("inc", Reg("rsi")),
       Ins1("pop", Reg("rax")),
       Blank,
       LabelDef(ConvertDigits),
       Line("test", Reg("rax"), Reg("rax")),
       Ins1("jnz", Sym(DigitLoop)),
       Line("mov", BytePtr("rsi"), Imm(48)),
       Ins1("inc", Reg("rsi")),
       Ins1("jmp", Sym(PrintLoop)),
       Blank,
       LabelDef(DigitLoop),
       Line("test", Reg("rax"), Reg("rax")),
       Ins1("jz", Sym(PrintLoop)),
       Line("xor", Reg("rdx"), Reg("rdx")),
       Ins1("div", Reg("rcx")),
       Line("add", Reg("dl"), Imm(48)),
       Line("mov", BytePtr("rsi"), Reg("dl")),
       Ins1("inc", Reg("rsi")),
       Ins1("jmp", Sym(DigitLoop)),
       Blank,
       LabelDef(PrintLoop),
       Ins1("dec", Reg("rsi")),
       Line("cmp", BytePtr("rsi"), Imm(10)),
       Ins1("je", Sym(EndPrint)),
       Blank,
       Line("mov", Reg("rax"), Imm(1)),
       Line("mov", Reg("rdi"), Imm(1)),
       Line("mov", Reg("rdx"), Imm(1)),
       Ins0("syscall"),
       Ins1("jmp", Sym(PrintLoop)),
       Blank,
       LabelDef(EndPrint),
       Line("mov", Reg("rsp"), Reg("rbp")),
       Ins1("pop", Reg("rbp")),
       Ins0("ret") >>

(***************************************************************************)
(* The analyzer and the generator, on the parsed text of small programs    *)
(***************************************************************************)

MaxBlockLen == 2    \* most statements in the body of a one-function program
MaxParams == 7      \* most parameters of a function

Cs(chars) == [i \in 1..Len(chars) |-> Ord(chars[i])]

RECURSIVE Concat(_)
Concat(texts) == IF texts = << >> THEN << >> ELSE Head(texts) \o Concat(Tail(texts))

\* Joined(<<a, b, c>>) is the text a,b,c
RECURSIVE Joined(_)
Joined(texts) ==
    IF Len(texts) <= 1 THEN Concat(texts)
    ELSE Head(texts) \o S1(",") \o Joined(Tail(texts))

\* The text  <function> name(params){body}
FunctionText(name, params, body) ==
    KwFunction \o S1(" ") \o name \o S1("(") \o params \o Cs(<< ")", "{" >>)
        \o body \o S1("}")

StatementTexts ==
    { KwVar \o Cs(<< " ", "x", "=", "1", ";" >>),
      KwVar \o Cs(<< " ", "x", "=", "x", ";" >>),
      KwVar \o Cs(<< " ", "y", "=", "x", ";" >>),
      Cs(<< "x", "=", "y", ";" >>),
      Cs(<< "y", "=", "1", ";" >>),
      KwIf \o Cs(<< "(", "x", "<", "y", ")", "{" >>) \o KwVar
           \o Cs(<< " ", "y", "=", "1", ";", "}" >>),
      KwIf \o Cs(<< "(", "x", ")", "{", "}" >>) \o KwElse
           \o Cs(<< "{", "y", "=", "2", ";", "}" >>),
      KwWhile \o Cs(<< "(", "x", ")", "{" >>) \o KwVar
           \o Cs(<< " ", "y", "=", "x", ";", "}" >>),
      KwReturn \o Cs(<< " ", "x", "+", "y", ";" >>),
      KwPrint \o Cs(<< "(", "-", "x", ")", ";" >>),
      Cs(<< "f", "(", "x", ")", ";" >>),
      KwReturn \o Cs(<< " ", "g", "(", ")", ";" >>) }

\* Programs of one function: its name, its parameter list and its body vary.
OneFunctionSources ==
    { FunctionText(name, params, Concat(body)) :
        name \in { Main, S1("f") },
        params \in { << >>, S1("x"), Cs(<< "x", ",", "y" >>),
                     Cs(<< "x", ",", "x" >>) },
        body \in SeqsUpTo(StatementTexts, MaxBlockLen) }

ParamNames ==
    << S1("a"), S1("b"), S1("c"), S1("d"), S1("e"), S1("g"), S1("h"), S1("i"),
       S1("j") >>

\* Programs of one function of n parameters that returns one of them.
ManyParamSources ==
    { FunctionText(S1("f"), Joined(SubSeq(ParamNames, 1, n)),
                   KwReturn \o S1(" ") \o ParamNames[k] \o S1(";")) :
        n \in 1..MaxParams, k \in 1..MaxParams }

FunctionNames ==
    { Main, S1("f"), StartName, ElsePrefix \o S1("0"), PrintNumber }

\* The bodies of the first of two functions: nothing, a call of the second
\* function, an if statement with an else block, a while statement.
FirstBody(k, callee) ==
    CASE k = 1 -> << >>
      [] k = 2 -> callee \o Cs(<< "(", ")", ";" >>)
      [] k = 3 -> KwIf \o Cs(<< "(", "1", ")", "{", "}" >>) \o KwElse
                       \o Cs(<< "{", "}" >>)
      [] k = 4 -> KwWhile \o Cs(<< "(", "1", ")", "{", "}" >>)

\* Programs of two functions: the names and the two bodies vary.
TwoFunctionSources ==
    { FunctionText(n1, << >>, FirstBody(k, n2)) \o FunctionText(n2, << >>, b2) :
        n1 \in FunctionNames, n2 \in FunctionNames, k \in 1..4,
        b2 \in { << >>, KwIf \o Cs(<< "(", "1", ")", "{", "}" >>) } }

DeclZ(v) == KwVar \o Cs(<< " ", "z", "=", v, ";" >>)
IfOne == KwIf \o Cs(<< "(", "1", ")", "{" >>)
WhileOne == KwWhile \o Cs(<< "(", "1", ")", "{" >>)
UseZ == { << >>, Cs(<< "z", "=", "2", ";" >>), DeclZ("2"),
          KwReturn \o Cs(<< " ", "z", ";" >>) }

\* Programs about the scope of a variable z: declared in a block of an if or
\* while statement of f or as f's parameter, and then used or declared again
\* in a sibling block, after the statement, or in a second function g.
ScopeSources ==
    { FunctionText(S1("f"), << >>,
                   IfOne \o DeclZ("1") \o S1("}") \o KwElse \o S1("{") \o u
                       \o S1("}") \o v)
          \o FunctionText(S1("g"), << >>, w) :
        u \in UseZ, v \in UseZ, w \in UseZ }
    \cup
    { FunctionText(S1("f"), p, WhileOne \o u \o S1("}") \o v)
          \o FunctionText(S1("g"), << >>, w) :
        p \in { << >>, S1("z") }, u \in UseZ, v \in UseZ, w \in UseZ }

SemSources ==
    { << >> } \cup OneFunctionSources \cup ManyParamSources
        \cup TwoFunctionSources \cup ScopeSources

\* compile_file hands the tree to SemanticAnalyzer.analyze and announces the
\* generator.
AnalyzeStage ==
    /\ pc = "analyze"
    /\ LET A == analyze(ast)
       IN  IF A.err = "none"
           THEN /\ stdout' = Append(stdout, Progress[4])
                /\ pc' = "generate"
                /\ UNCHANGED << raised, success >>
           ELSE /\ Raise(A.err)
                /\ UNCHANGED stdout
    /\ UNCHANGED << inputFile, source, pos, line, column, tokens, ast,
                    assembly, outFile, exitCode, cpu >>

\* compile_file hands the tree to CodeGenerator.generate and appends the
\* print helper to the listing.
GenerateStage ==
    /\ pc = "generate"
    /\ LET g == generate(ast)
       IN  IF g.err = "none"
           THEN /\ assembly' = g.output \o add_print_helper
                /\ pc' = "write"
                /\ UNCHANGED << raised, success >>
           ELSE /\ Raise(g.err)
                /\ UNCHANGED assembly
    /\ UNCHANGED << inputFile, source, pos, line, column, tokens, ast, stdout,
                    outFile, exitCode, cpu >>

InitSem ==
    /\ pc = "analyze"
    /\ inputFile = NoFile
    /\ source \in SemSources
    /\ tokenize(source).err = "none"
    /\ tokens = tokenize(source).tokens
    /\ parse(tokens).err = "none"
    /\ ast = parse(tokens).node
    /\ pos = Len(source) /\ line = 1 /\ column = Len(source) + 1
    /\ assembly = << >>
    /\ stdout = << Progress[1], Progress[2], Progress[3] >>
    /\ raised = "none"
    /\ outFile = NoFile
    /\ success = FALSE
    /\ exitCode = -1
    /\ cpu = CpuOff

NextSem == AnalyzeStage \/ GenerateStage

SpecSem == InitSem /\ [][NextSem]_vars

\* The names a function body mentions, in traversal order: "def" for the
\* name of a VarDecl (after its initializer), "use" for an Identifier or an
\* Assignment target, "call" for the target of a FunctionCall.
Mention(kind, name) == [kind |-> kind, name |-> name]

RECURSIVE Mentions(_, _)
Mentions(what, x) ==
    CASE what = "list" ->
           IF x = << >> THEN << >>
           ELSE Mentions("node", Head(x)) \o Mentions("list", Tail(x))
      [] x.type = "Block" -> Mentions("list", x.statements)
      [] x.type = "VarDecl" ->
           Mentions("node", x.value) \o << Mention("def", x.name) >>
      [] x.type = "Assignment" ->
           << Mention("use", x.name) >> \o Mentions("node", x.value)
      [] x.type = "IfStatement" ->
           Mentions("node", x.condition) \o Mentions("node", x.then_block)
               \o Mentions("node", x.else_block)
      [] x.type = "WhileStatement" ->
           Mentions("node", x.condition) \o Mentions("node", x.body)
      [] x.type \in { "ReturnStatement", "PrintStatement", "UnaryOp" } ->
           Mentions("node", x.value)
      [] x.type = "BinaryOp" ->
           Mentions("node", x.left) \o Mentions("node", x.right)
      [] x.type = "Identifier" -> << Mention("use", x.name) >>
      [] x.type = "FunctionCall" ->
           << Mention("call", x.name) >> \o Mentions("list", x.args)
      [] OTHER -> << >>

NamesOf(prog) == { prog.functions[i].name : i \in 1..Len(prog.functions) }
ParamsOf(func) == { func.params[i] : i \in 1..Len(func.params) }
\* The variables declared by the mentions before the i-th.
DeclaredBefore(ms, i) == { ms[j].name : j \in { k \in 1..(i - 1) : ms[k].kind = "def" } }

DistinctNames(prog) ==
    \A i, j \in 1..Len(prog.functions) :
        i # j => prog.functions[i].name # prog.functions[j].name

Resolved(prog, func) ==
    LET ms == Mentions("node", func.body)
    IN  \A i \in 1..Len(ms) :
            /\ ms[i].kind = "use" =>
                   ms[i].name \in ParamsOf(func) \cup DeclaredBefore(ms, i)
            /\ ms[i].kind = "call" => ms[i].name \in NamesOf(prog)

\* The analyzer has accepted the program: the generator was announced.
Accepted == Len(stdout) >= 4
\* The stage announced by the k-th progress line has raised an exception.
FailedIn(k) == pc = "return" /\ raised # "none" /\ Len(stdout) = k

\* C2: in a program the analyzer accepts, function names are pairwise
\* distinct, every identifier and assignment target names a parameter or a
\* variable declared earlier in traversal order (an initializer is checked
\* before its own name is declared), and every call names a function of the
\* program, defined earlier or later.
C2_AcceptedIsResolved ==
    Accepted =>
        /\ DistinctNames(ast)
        /\ \A i \in 1..Len(ast.functions) : Resolved(ast, ast.functions[i])

\* The analyzer has accepted two functions the first of which calls the
\* second, and a function that uses, after an if statement, the variable
\* declared inside it.
C2_Witness ==
    /\ Accepted
    /\ \/ /\ Len(ast.functions) = 2
          /\ Mentions("node", ast.functions[1].body)
                 = << Mention("call", ast.functions[2].name) >>
          /\ ast.functions[1].name # ast.functions[2].name
       \/ /\ Len(ast.functions) = 1
          /\ ast.functions[1].params = << S1("x"), S1("y") >>
          /\ Len(ast.functions[1].body.statements) = 2
          /\ ast.functions[1].body.statements[1].type = "IfStatement"
          /\ ast.functions[1].body.statements[2].type = "Assignment"

DuplicateIn(seq) == \E i, j \in 1..Len(seq) : i # j /\ seq[i] = seq[j]

\* One of the five violations occurs in the program.
HasViolation(prog) ==
    \/ ~DistinctNames(prog)
    \/ \E f \in 1..Len(prog.functions) :
          LET func == prog.functions[f]
              ms == Mentions("node", func.body)
          IN  \/ DuplicateIn(func.params)
              \/ ~Resolved(prog, func)
              \/ \E i \in 1..Len(ms) :
                    /\ ms[i].kind = "def"
                    /\ ms[i].name \in ParamsOf(func) \cup DeclaredBefore(ms, i)

\* C10: when the program holds a duplicate function name, a duplicate
\* parameter, a variable declared twice, an unresolved variable or an
\* unresolved called function, the analyzer fails with a SemanticError.
C10_ViolationIsSemanticError ==
    (pc # "analyze" /\ HasViolation(ast)) =>
        (FailedIn(3) /\ raised = "SemanticError")

\* A VarDecl of the function names a parameter or a variable an earlier
\* VarDecl of the same function declared, wherever the two are nested.
DeclaredTwice(func) ==
    LET ms == Mentions("node", func.body)
    IN  \E i \in 1..Len(ms) :
            /\ ms[i].kind = "def"
            /\ ms[i].name \in ParamsOf(func) \cup DeclaredBefore(ms, i)

\* The function uses a name that neither its own parameters nor its own
\* earlier VarDecls declare.
UsesUndeclared(func) ==
    LET ms == Mentions("node", func.body)
    IN  \E i \in 1..Len(ms) :
            /\ ms[i].kind = "use"
            /\ ms[i].name \notin ParamsOf(func) \cup DeclaredBefore(ms, i)

\* C15: the parameters and VarDecls of a function share one scope that no
\* other function shares: the analyzer rejects a program in which a VarDecl
\* repeats a parameter or an earlier VarDecl of its function, however the
\* two are nested, and one in which a function uses a name only another
\* function declares; it accepts a program without any violation, so a
\* variable declared inside an if or while block is resolvable after the
\* block, and two functions may declare the same name.
C15_FunctionScope ==
    (pc # "analyze") =>
        /\ (\E i \in 1..Len(ast.functions) :
                \/ DeclaredTwice(ast.functions[i])
                \/ UsesUndeclared(ast.functions[i])) => FailedIn(3)
        /\ ~HasViolation(ast) => Accepted

\* Accepted: z is declared in the then block of f and assigned after the if
\* statement, and g declares its own z. Rejected: z is declared in both
\* blocks of an if statement.
C15_Witness ==
    /\ Len(ast.functions) = 2
    /\ Accepted
    /\ Mentions("node", ast.functions[1].body)
           = << Mention("def", S1("z")), Mention("use", S1("z")) >>
    /\ ast.functions[1].body.statements[1].type = "IfStatement"
    /\ Len(ast.functions[1].body.statements) = 2
    /\ Mentions("node", ast.functions[2].body) = << Mention("def", S1("z")) >>

\* The generator state with which the code of the i-th function begins,
\* after the first statements of generate_function.
FunctionEntry(prog, i) ==
    enter_function(GenerateFunctions(GeneratorInit,
                                     SubSeq(prog.functions, 1, i - 1)))

\* The number of if and while statements in a tree.
RECURSIVE ControlCount(_, _)
ControlCount(what, x) ==
    CASE what = "list" ->
           IF x = << >> THEN 0
           ELSE ControlCount("node", Head(x)) + ControlCount("list", Tail(x))
      [] x.type = "Function" -> ControlCount("node", x.body)
      [] x.type = "Block" -> ControlCount("list", x.statements)
      [] x.type = "IfStatement" ->
           1 + ControlCount("node", x.then_block)
             + ControlCount("node", x.else_block)
      [] x.type = "WhileStatement" -> 1 + ControlCount("node", x.body)
      [] OTHER -> 0

\* C16 as stated: when the code of each function begins, the label counter
\* is 0, the local-variable map is empty and the stack offset is 0.
C16_StateResetsPerFunction ==
    (pc = "write") =>
        \A i \in 1..Len(ast.functions) :
            /\ FunctionEntry(ast, i).label_counter = 0
            /\ FunctionEntry(ast, i).local_vars = << >>
            /\ FunctionEntry(ast, i).stack_offset = 0

\* C16, amended: when the code of each function begins, the local-variable
\* map is empty and the stack offset is 0, while the label counter is not
\* reset: it has counted the two labels of every if and while statement of
\* the functions before.
C16_LocalsResetLabelsContinue ==
    (pc = "write") =>
        \A i \in 1..Len(ast.functions) :
            /\ FunctionEntry(ast, i).local_vars = << >>
            /\ FunctionEntry(ast, i).stack_offset = 0
            /\ FunctionEntry(ast, i).label_counter
                   = 2 * ControlCount("list", SubSeq(ast.functions, 1, i - 1))

\* The code of a second function begins after a first function that has a
\* parameter and a while statement.
C16_Witness ==
    /\ pc = "write"
    /\ Len(ast.functions) = 2
    /\ Len(ast.functions[1].params) = 1
    /\ ControlCount("node", ast.functions[1]) = 1
    /\ GenerateFunctions(GeneratorInit, << ast.functions[1] >>).stack_offset < 0
    /\ FunctionEntry(ast, 2).label_counter = 2

\* C3: the generator raises no exception for a program the analyzer accepted.
C3_GeneratorNeverFails == ~FailedIn(4)

LabelNames(lines) ==
    LET defs == SelectSeq(lines, LAMBDA l : l.op = "label")
    IN  [i \in 1..Len(defs) |-> defs[i].a.s]
CallTargets(lines) ==
    { lines[i].a.s : i \in { k \in 1..Len(lines) : lines[k].op = "call" } }

\* C4: in the listing of any accepted program, whatever its function names,
\* no label is defined twice: function labels, else<n>, endif<n>,
\* while_start<n>, while_end<n>, _start and print_number are distinct.
C4_LabelsDefinedOnce == (pc = "write") => ~DuplicateIn(LabelNames(assembly))

\* C5: in the listing of any accepted program, every call instruction, the
\* one after _start included, targets a label the listing defines.
C5_CallsTargetLabels ==
    (pc = "write") =>
        \A t \in CallTargets(assembly) :
            \E i \in 1..Len(LabelNames(assembly)) : LabelNames(assembly)[i] = t

(***************************************************************************)
(* The processor running the emitted listing                               *)
(***************************************************************************)

WordBits == 10      \* width of the modelled registers (64 in the machine)

RECURSIVE Pow2(_)
Pow2(n) == IF n = 0 THEN 1 ELSE 2 * Pow2(n - 1)
Word(v) == v % Pow2(WordBits)                  \* v as an unsigned word
Signed(v) == IF v >= Pow2(WordBits - 1) THEN v - Pow2(WordBits) ELSE v

SignedAt(v, bits) == IF v >= Pow2(bits - 1) THEN v - Pow2(bits) ELSE v

\* The cpu: the index in the listing of the next instruction (0 once the
\* routine has returned to its caller or the process has ended), the
\* registers, the zero, sign and overflow flags, the memory as the value last
\* stored at each address, the bytes written to file descriptor 1, the value
\* the routine was called with, the status given to the exit system call (-1
\* before it) and the signal that has ended the process.
RegNames ==
    { "rax", "rbx", "rcx", "rdx", "rsi", "rdi", "rbp", "rsp", "r8", "r9" }
IsLow8(r) == r \in { "al", "dl" }
WideOf(r) == IF r = "al" THEN "rax" ELSE IF r = "dl" THEN "rdx" ELSE r

\* The width in bits of an operand.
OperandBits(o) == IF o.k = "byte" \/ (o.k = "reg" /\ IsLow8(o.r)) THEN 8 ELSE WordBits

Address(c, o) == IF o.k = "byte" THEN c.regs[o.r] ELSE Word(c.regs["rbp"] + o.n)

ReadOperand(c, o) ==
    CASE o.k = "reg" -> IF IsLow8(o.r) THEN c.regs[WideOf(o.r)] % 256
                        ELSE c.regs[o.r]
      [] o.k = "imm" -> Word(o.n)
      [] OTHER -> c.mem[Address(c, o)]

Store(mem, a, v) == [x \in DOMAIN mem \cup {a} |-> IF x = a THEN v ELSE mem[x]]

WriteOperand(c, o, v) ==
    CASE o.k = "reg" ->
           IF IsLow8(o.r)
           THEN [c EXCEPT !.regs[WideOf(o.r)] = @ - (@ % 256) + (v % 256)]
           ELSE [c EXCEPT !.regs[o.r] = Word(v)]
      [] o.k = "byte" -> [c EXCEPT !.mem = Store(@, Address(c, o), v % 256)]
      [] OTHER -> [c EXCEPT !.mem = Store(@, Address(c, o), Word(v))]

\* The zero and sign flags of a result of the given width; the overflow flag
\* is set when the exact signed result does not fit the width.
SetFlags(c, v, bits, exact) ==
    [c EXCEPT !.zf = (v % Pow2(bits) = 0),
              !.sf = (v % Pow2(bits) >= Pow2(bits - 1)),
              !.of = (exact < 0 - Pow2(bits - 1) \/ exact >= Pow2(bits - 1))]

\* The quotient rounded toward zero.
TruncDiv(n, d) ==
    LET q == (IF n < 0 THEN 0 - n ELSE n) \div (IF d < 0 THEN 0 - d ELSE d)
    IN  IF (n < 0) # (d < 0) THEN 0 - q ELSE q

\* The condition a setcc instruction tests.
Condition(c, cc) ==
    CASE cc = "sete" -> c.zf
      [] cc = "setne" -> ~c.zf
      [] cc = "setl" -> c.sf # c.of
      [] cc = "setge" -> c.sf = c.of
      [] cc = "setle" -> c.zf \/ c.sf # c.of
      [] cc = "setg" -> ~c.zf /\ c.sf = c.of

RECURSIVE BitAnd(_, _)
BitAnd(x, y) ==
    IF x = 0 \/ y = 0 THEN 0
    ELSE 2 * BitAnd(x \div 2, y \div 2) + (IF x % 2 = 1 /\ y % 2 = 1 THEN 1 ELSE 0)

RECURSIVE BitXor(_, _)
BitXor(x, y) ==
    IF x = 0 THEN y ELSE IF y = 0 THEN x
    ELSE 2 * BitXor(x \div 2, y \div 2) + (IF x % 2 # y % 2 THEN 1 ELSE 0)

IsInstruction(l) ==
    /\ l.op \notin { "", "label", ".asciz", ".global", ".intel_syntax noprefix",
                     ".section .data", ".section .text",
                     "# Print integer in rax" }

\* The first instruction at or after line i of the listing.
RECURSIVE Settle(_, _)
Settle(listing, i) ==
    IF i > Len(listing) THEN 0
    ELSE IF IsInstruction(listing[i]) THEN i ELSE Settle(listing, i + 1)

\* The line that defines a label.
LabelLine(listing, name) ==
    CHOOSE i \in 1..Len(listing) : listing[i] = LabelDef(name)

Goto(listing, c, name) == [c EXCEPT !.ip = Settle(listing, LabelLine(listing, name))]
Step(listing, c) == [c EXCEPT !.ip = Settle(listing, c.ip + 1)]

\* The write system call of one byte to file descriptor 1: the byte at rsi
\* is written, rax holds the count written and rcx the return address.
SysWrite(listing, c) ==
    [c EXCEPT !.out = Append(@, c.mem[c.regs["rsi"]]),
              !.regs["rax"] = 1,
              !.regs["rcx"] = Word(Settle(listing, c.ip + 1))]

\* The exit system call: the process ends with the status in rdi.
SysExit(c) == [c EXCEPT !.ip = 0, !.status = c.regs["rdi"]]

\* A divide error: the process is ended by SIGFPE.
DivideError(c) == [c EXCEPT !.ip = 0, !.signal = "SIGFPE"]

\* idiv: the signed rdx:rax divided by the signed operand, the quotient in
\* rax and the remainder in rdx; a divide error when the operand is 0 or the
\* quotient does not fit a register.
SignedDivide(c, next, divisor) ==
    LET dividend == SignedAt(c.regs["rdx"] * Pow2(WordBits) + c.regs["rax"],
                             2 * WordBits)
        quotient == TruncDiv(dividend, divisor)
    IN  IF divisor = 0 THEN DivideError(c)
        ELSE IF quotient < 0 - Pow2(WordBits - 1) \/ quotient >= Pow2(WordBits - 1)
        THEN DivideError(c)
        ELSE [next EXCEPT !.regs["rax"] = Word(quotient),
                          !.regs["rdx"] = Word(dividend - quotient * divisor)]

\* The effect of the instruction at c.ip.
Execute(listing, c) ==
    LET l == listing[c.ip]
        a == l.a
        b == l.b
        bits == OperandBits(a)
        next == Step(listing, c)
        x == IF a.k = "none" \/ a.k = "sym" THEN 0 ELSE ReadOperand(c, a)
        y == IF b.k = "none" \/ b.k = "sym" THEN 0 ELSE ReadOperand(c, b)
        sx == SignedAt(x, bits)
        sy == SignedAt(y, bits)
    IN  CASE l.op = "push" ->
               [next EXCEPT !.regs["rsp"] = Word(@ - 8),
                            !.mem = Store(@, Word(c.regs["rsp"] - 8), x)]
          [] l.op = "pop" ->
               [WriteOperand(next, a, c.mem[c.regs["rsp"]])
                    EXCEPT !.regs["rsp"] = Word(c.regs["rsp"] + 8)]
          [] l.op = "call" ->
               [Goto(listing, c, a.s)
                    EXCEPT !.regs["rsp"] = Word(@ - 8),
                           !.mem = Store(@, Word(c.regs["rsp"] - 8), next.ip)]
          [] l.op = "ret" ->
               [c EXCEPT !.ip = c.mem[c.regs["rsp"]],
                         !.regs["rsp"] = Word(@ + 8)]
          [] l.op = "mov" -> WriteOperand(next, a, y)
          [] l.op = "movzx" -> WriteOperand(next, a, y)
          [] l.op = "lea" -> WriteOperand(next, a, Address(c, b))
          [] l.op = "add" ->
               SetFlags(WriteOperand(next, a, (x + y) % Pow2(bits)), x + y, bits,
                        sx + sy)
          [] l.op = "sub" ->
               SetFlags(WriteOperand(next, a, (x - y) % Pow2(bits)), x - y, bits,
                        sx - sy)
          [] l.op = "imul" ->
               SetFlags(WriteOperand(next, a, (x * y) % Pow2(bits)), x * y, bits,
                        sx * sy)
          [] l.op = "xor" ->
               SetFlags(WriteOperand(next, a, BitXor(x, y)), BitXor(x, y), bits, 0)
          [] l.op = "inc" ->
               SetFlags(WriteOperand(next, a, (x + 1) % Pow2(bits)), x + 1, bits,
                        sx + 1)
          [] l.op = "dec" ->
               SetFlags(WriteOperand(next, a, (x - 1) % Pow2(bits)), x - 1, bits,
                        sx - 1)
          [] l.op = "neg" ->
               SetFlags(WriteOperand(next, a, (0 - x) % Pow2(bits)), 0 - x, bits,
                        0 - sx)
          [] l.op = "test" -> SetFlags(next, BitAnd(x, y), bits, 0)
          [] l.op = "cmp" -> SetFlags(next, x - y, bits, sx - sy)
          [] l.op \in { "sete", "setne", "setl", "setle", "setg", "setge" } ->
               WriteOperand(next, a, IF Condition(c, l.op) THEN 1 ELSE 0)
          [] l.op = "cqo" ->
               [next EXCEPT !.regs["rdx"] =
                    IF c.regs["rax"] >= Pow2(WordBits - 1)
                    THEN Pow2(WordBits) - 1 ELSE 0]
          [] l.op = "div" ->       \* unsigned rdx:rax by the operand
               LET dividend == c.regs["rdx"] * Pow2(WordBits) + c.regs["rax"]
               IN  IF x = 0 \/ dividend \div x >= Pow2(WordBits)
                   THEN DivideError(c)
                   ELSE [next EXCEPT !.regs["rax"] = dividend \div x,
                                     !.regs["rdx"] = dividend % x]
          [] l.op = "idiv" -> SignedDivide(c, next, sx)
          [] l.op = "jmp" -> Goto(listing, c, a.s)
          [] l.op \in { "jz", "je" } ->
               IF c.zf THEN Goto(listing, c, a.s) ELSE next
          [] l.op = "jnz" -> IF ~c.zf THEN Goto(listing, c, a.s) ELSE next
          [] l.op = "jns" -> IF ~c.sf THEN Goto(listing, c, a.s) ELSE next
          [] l.op = "syscall" ->
               IF c.regs["rax"] = 60 THEN SysExit(c) ELSE SysWrite(listing, next)

(***************************************************************************)
(* print_number alone, called with every value of a register               *)
(***************************************************************************)

StackTop == Pow2(WordBits) - 8

\* The cpu as  mov rdi, rax; call print_number  leaves it: the value in rdi
\* and rax, the return address 0 pushed, the other registers as the caller
\* left them.
CalledWith(listing, v, junk) ==
    [on |-> TRUE,
     ip |-> Settle(listing, LabelLine(listing, PrintNumber)),
     regs |-> [r \in RegNames |->
                  CASE r \in { "rdi", "rax" } -> Word(v)
                    [] r = "rsp" -> StackTop - 8
                    [] r = "rbp" -> StackTop
                    [] OTHER -> junk],
     zf |-> FALSE, sf |-> FALSE, of |-> FALSE,
     mem |-> [x \in { StackTop - 8 } |-> 0],
     out |-> << >>,
     arg |-> v, status |-> -1, signal |-> "none"]

\* The processor executes one instruction of the listing.
ExecStep ==
    /\ pc = "run"
    /\ cpu.on /\ cpu.ip # 0
    /\ cpu' = Execute(assembly, cpu)
    /\ UNCHANGED << pc, inputFile, source, pos, line, column, tokens, ast,
                    assembly, stdout, raised, outFile, success, exitCode >>

InitPrint ==
    /\ pc = "run"
    /\ inputFile = NoFile
    /\ source = << >>
    /\ pos = 0 /\ line = 1 /\ column = 1
    /\ tokens = << >>
    /\ ast = NoAst
    /\ assembly = add_print_helper
    /\ stdout = << >>
    /\ raised = "none"
    /\ outFile = NoFile
    /\ success = FALSE
    /\ exitCode = -1
    /\ \E v \in (0 - Pow2(WordBits - 1))..(Pow2(WordBits - 1) - 1),
          junk \in { 0, Pow2(WordBits) - 1 } :
          cpu = CalledWith(add_print_helper, v, junk)

NextPrint == ExecStep

SpecPrint == InitPrint /\ [][NextPrint]_vars

Returned == cpu.on /\ cpu.ip = 0

\* The decimal text of an integer, with a leading '-' when it is negative.
Decimal(v) == IF v < 0 THEN << 45 >> \o Str(0 - v) ELSE Str(v)

\* C6: when print_number returns, the bytes it has written are the decimal
\* text of the value it was called with, most significant digit first, with
\* '-' before it when negative, followed by a newline.
C6_PrintsDecimalLine == Returned => cpu.out = Decimal(cpu.arg) \o << 10 >>

(***************************************************************************)
(* The processor running the listing of a compiled program from _start     *)
(***************************************************************************)

\* The cpu when the process starts: the next instruction is the first after
\* _start, rsp is the top of the stack, and the other registers hold what the
\* loader left in them.
Boot(listing, junk) ==
    [on |-> TRUE,
     ip |-> Settle(listing, LabelLine(listing, StartName)),
     regs |-> [r \in RegNames |-> IF r = "rsp" THEN StackTop ELSE junk],
     zf |-> FALSE, sf |-> FALSE, of |-> FALSE,
     mem |-> [x \in {} |-> 0],
     out |-> << >>,
     arg |-> 0, status |-> -1, signal |-> "none"]

Operators ==
    { S1("+"), S1("-"), S1("*"), S1("/"), S2("=", "="), S2("!", "="), S1("<"),
      S1(">"), S2("<", "="), S2(">", "=") }

Atoms == { S1("0"), S1("2"), S1("7"), Cs(<< "-", "3" >>) }

\* Operands for the nested expressions: small ones, one that makes a divisor
\* zero, and ones whose sums and differences leave the range of a register.
Triples ==
    { << S1("7"), S1("2"), S1("3") >>,
      << Cs(<< "-", "7" >>), S1("2"), S1("2") >>,
      << S1("3"), S1("3"), S1("0") >>,
      << Cs(<< "5", "0", "0" >>), Cs(<< "-", "5", "0", "0" >>), S1("9") >> }

Paren(e) == S1("(") \o e \o S1(")")

\* Expressions of one operator, and of two or three nested either way.
ExpressionTexts ==
    { a \o op \o b : a \in Atoms, b \in Atoms, op \in Operators }
    \cup { Paren(t[1] \o op1 \o t[2]) \o op2 \o t[3] :
             t \in Triples, op1 \in Operators, op2 \in Operators }
    \cup { t[1] \o op1 \o Paren(t[2] \o op2 \o t[3]) :
             t \in Triples, op1 \in Operators, op2 \in Operators }
    \cup { Paren(t[1] \o op1 \o t[2]) \o op2 \o Paren(t[3] \o op1 \o t[1]) :
             t \in Triples, op1 \in Operators, op2 \in Operators }

\* Programs whose main function returns the value of an expression.
ExpressionSources ==
    { FunctionText(Main, << >>, KwReturn \o S1(" ") \o e \o S1(";")) :
        e \in ExpressionTexts }

Digits == << S1("1"), S1("2"), S1("3"), S1("4"), S1("5"), S1("6") >>

\* <function> y(a,b){<return> a-b;}  and  <function> z(a){<print>(a);<return> a;}
MinusFunction ==
    FunctionText(S1("y"), Cs(<< "a", ",", "b" >>),
                 KwReturn \o Cs(<< " ", "a", "-", "b", ";" >>))
EchoFunction ==
    FunctionText(S1("z"), S1("a"),
                 KwPrint \o Cs(<< "(", "a", ")", ";" >>)
                     \o KwReturn \o Cs(<< " ", "a", ";" >>))

\* The i-th argument of the call: the digit i, a sum, a call of y, a call of
\* z.
Argument(form, i) ==
    CASE form = "sum" -> Digits[i] \o Cs(<< "*", "9", "+", "7" >>)
      [] form = "minus" -> Cs(<< "y", "(" >>) \o Digits[i] \o Cs(<< ",", "9", ")" >>)
      [] form = "echo" -> Cs(<< "z", "(" >>) \o Digits[i] \o S1(")")
      [] OTHER -> Digits[i]

\* Programs in which main returns f(e1, ..., en), f returns its k-th
\* parameter, and the j-th argument, or each of three arguments, has the
\* given form; y or z is defined when an argument calls it.
CallText(n, k, j, form) ==
    FunctionText(S1("f"), Joined(SubSeq(ParamNames, 1, n)),
                 KwReturn \o S1(" ") \o ParamNames[k] \o S1(";"))
        \o (IF form = "minus" THEN MinusFunction
            ELSE IF form = "echo" THEN EchoFunction ELSE << >>)
        \o FunctionText(Main, << >>,
               KwReturn \o Cs(<< " ", "f", "(" >>)
                   \o Joined([i \in 1..n |->
                                 Argument(IF j = i \/ j = 0 THEN form
                                                           ELSE "digit", i)])
                   \o Cs(<< ")", ";" >>))

CallSources ==
    { CallText(n, k, j, form) :
        n \in 1..Len(param_registers), k \in 1..Len(param_registers),
        j \in 1..Len(param_registers), form \in { "sum", "minus", "echo" } }
    \cup { CallText(3, k, 0, form) :
             k \in 1..3, form \in { "sum", "minus", "echo" } }

PrintText(e) == KwPrint \o S1("(") \o e \o Cs(<< ")", ";" >>)
IfText(c, t) == KwIf \o S1("(") \o c \o Cs(<< ")", "{" >>) \o t \o S1("}")
IfElseText(c, t, e) == IfText(c, t) \o KwElse \o S1("{") \o e \o S1("}")
WhileText(c, b) == KwWhile \o S1("(") \o c \o Cs(<< ")", "{" >>) \o b \o S1("}")
SetText(v, e) == S1(v) \o S1("=") \o e \o S1(";")
Decrement(v) == SetText(v, Cs(<< v, "-", "1" >>))

\* Statements that print which blocks run and in which order: if with and
\* without else, while, each nested in the others, and several in sequence.
ControlTexts ==
    { IfText(S1("n"), PrintText(S1("1"))),
      IfElseText(S1("n"), PrintText(S1("1")), PrintText(S1("2"))),
      IfElseText(Cs(<< "n", "-", "1" >>), PrintText(S1("1")),
                 IfElseText(S1("n"), PrintText(S1("2")), PrintText(S1("3")))),
      IfText(S1("n"),
             IfElseText(Cs(<< "n", "-", "1" >>), PrintText(S1("1")),
                        PrintText(S1("2")))
                 \o PrintText(S1("3"))),
      WhileText(S1("n"), PrintText(S1("n")) \o Decrement("n")),
      WhileText(S1("n"),
                IfElseText(Cs(<< "n", "-", "2" >>), PrintText(S1("1")),
                           PrintText(S1("2")))
                    \o Decrement("n")),
      WhileText(S1("n"),
                KwVar \o S1(" ") \o SetText("r", S1("n"))
                    \o WhileText(S1("r"), PrintText(S1("r")) \o Decrement("r"))
                    \o Decrement("n")),
      IfElseText(S1("n"),
                 WhileText(S1("n"), PrintText(S1("n")) \o Decrement("n")),
                 PrintText(S1("0"))),
      IfText(S1("n"), PrintText(S1("1")))
          \o IfText(Cs(<< "n", "-", "1" >>), PrintText(S1("2"))),
      WhileText(Cs(<< "n", ">", "1" >>), Decrement("n"))
          \o IfElseText(Cs(<< "n", "<", "1" >>), PrintText(S1("3")),
                        PrintText(S1("4"))),
      WhileText(S1("0"), PrintText(S1("5")))
          \o WhileText(S1("n"), Decrement("n"))
          \o IfText(S1("n"), PrintText(S1("1"))) }

MaxCount == 3       \* largest initial value of the counter n

\* <function> main(){<var> n=k; ... <print>(9);<return> n;}
ControlSources ==
    { FunctionText(Main, << >>,
          KwVar \o S1(" ") \o SetText("n", Str(k))
              \o t \o PrintText(S1("9"))
              \o KwReturn \o Cs(<< " ", "n", ";" >>)) :
        k \in 0..MaxCount, t \in ControlTexts }

\* Programs in which main calls f with n arguments in the body of a while
\* statement that runs twice.
BalanceSources ==
    { FunctionText(S1("f"), Joined(SubSeq(ParamNames, 1, n)), << >>)
          \o FunctionText(Main, << >>,
                 KwVar \o S1(" ") \o SetText("n", S1("2"))
                     \o WhileText(S1("n"),
                            Cs(<< "f", "(" >>)
                                \o Joined([i \in 1..n |-> Str(i)])
                                \o Cs(<< ")", ";" >>) \o Decrement("n"))
                     \o KwReturn \o Cs(<< " ", "n", ";" >>)) :
        n \in 0..(Len(param_registers) + 1) }

\* Programs in which f, of p parameters, declares i and j and returns their
\* sum, and main declares x and y, the latter from a call of f in a sum.
LocalSources ==
    { FunctionText(S1("f"), Joined(SubSeq(ParamNames, 1, p)),
                   KwVar \o S1(" ") \o SetText("i", S1("1"))
                       \o KwVar \o S1(" ") \o SetText("j", Cs(<< "i", "+", "2" >>))
                       \o KwReturn \o Cs(<< " ", "i", "+", "j", ";" >>))
          \o FunctionText(Main, << >>,
                 KwVar \o S1(" ") \o SetText("x", S1("3"))
                     \o KwVar \o S1(" ")
                     \o SetText("y", Cs(<< "x", "+", "f", "(" >>)
                                         \o Joined([i \in 1..p |-> Str(i)])
                                         \o S1(")"))
                     \o KwReturn \o Cs(<< " ", "y", ";" >>)) :
        p \in 0..2 }

RunSources ==
    ExpressionSources \cup CallSources \cup ControlSources
        \cup BalanceSources \cup LocalSources

\* The program has been compiled, and its listing assembled, linked and
\* started.
InitRun ==
    /\ pc = "run"
    /\ source \in RunSources
    /\ inputFile = File(source)
    /\ pos = Len(source) /\ line = 1 /\ column = Len(source) + 1
    /\ tokens = tokenize(source).tokens
    /\ ast = parse(tokens).node
    /\ analyze(ast).err = "none"
    /\ generate(ast).err = "none"
    /\ assembly = generate(ast).output \o add_print_helper
    /\ stdout = Progress
    /\ raised = "none"
    /\ outFile = File(assembly)
    /\ success = TRUE
    /\ exitCode = 0
    /\ \E junk \in { 0, Pow2(WordBits) - 1 } : cpu = Boot(assembly, junk)

NextRun == ExecStep

SpecRun == InitRun /\ [][NextRun]_vars

Exited == cpu.on /\ cpu.ip = 0 /\ cpu.status # -1

\* The value of an expression of numbers in the arithmetic of a register:
\* sums, differences and products wrap around, a quotient is rounded toward
\* zero, a comparison is 1 or 0.
Wrap(v) == Signed(Word(v))

Magnitude(v) == IF v < 0 THEN 0 - v ELSE v

Quotient(n, d) ==
    CHOOSE q \in (0 - Magnitude(n))..Magnitude(n) :
        LET r == n - q * d
        IN  /\ Magnitude(r) < Magnitude(d)
            /\ r = 0 \/ (r < 0) = (n < 0)

Apply(op, x, y) ==
    CASE op = S1("+") -> Wrap(x + y)
      [] op = S1("-") -> Wrap(x - y)
      [] op = S1("*") -> Wrap(x * y)
      [] op = S1("/") -> Quotient(x, y)
      [] op = S2("=", "=") -> IF x = y THEN 1 ELSE 0
      [] op = S2("!", "=") -> IF x # y THEN 1 ELSE 0
      [] op = S1("<") -> IF x < y THEN 1 ELSE 0
      [] op = S1(">") -> IF x > y THEN 1 ELSE 0
      [] op = S2("<", "=") -> IF x <= y THEN 1 ELSE 0
      [] op = S2(">", "=") -> IF x >= y THEN 1 ELSE 0

RECURSIVE Value(_)
Value(e) ==
    CASE e.type = "Number" -> Wrap(e.value)
      [] e.type = "UnaryOp" -> Wrap(0 - Value(e.value))
      [] e.type = "BinaryOp" -> Apply(e.op, Value(e.left), Value(e.right))

\* No division of the expression divides by zero or leaves the range.
RECURSIVE Defined(_)
Defined(e) ==
    CASE e.type = "Number" -> TRUE
      [] e.type = "UnaryOp" -> Defined(e.value)
      [] e.type = "BinaryOp" ->
           /\ Defined(e.left) /\ Defined(e.right)
           /\ e.op = S1("/") =>
                 /\ Value(e.right) # 0
                 /\ ~(Value(e.left) = 0 - Pow2(WordBits - 1) /\ Value(e.right) = -1)

IsExpressionProgram ==
    /\ Len(ast.functions) = 1
    /\ Len(ast.functions[1].body.statements) = 1
    /\ ast.functions[1].body.statements[1].type = "ReturnStatement"
    /\ Mentions("node", ast.functions[1].body) = << >>

ReturnedExpression == ast.functions[1].body.statements[1].value

\* The code of the expression has run: the next instruction is the first of
\* the return statement's epilogue.
AfterExpression ==
    cpu.on /\ cpu.ip # 0 /\ assembly[cpu.ip] = LeaveLines[1]

\* C13: the code emitted for an expression of numbers, unary minus and binary
\* operators, none of which divides by zero, leaves in rax the value of the
\* expression, left operand on the left and right operand on the right of
\* every operator, however the operands are nested; the process then exits
\* with that value and no divide error occurs.
C13_ExpressionValue ==
    (/\ IsExpressionProgram
     /\ AfterExpression \/ cpu.ip = 0
     /\ Defined(ReturnedExpression)) =>
        /\ AfterExpression => cpu.regs["rax"] = Word(Value(ReturnedExpression))
        /\ Exited => cpu.status = Word(Value(ReturnedExpression))
        /\ cpu.signal = "none"

\* The process has exited after computing 500 < (-500 - 9): the comparison
\* subtracts with overflow.
C13_Witness ==
    /\ IsExpressionProgram
    /\ Exited
    /\ ReturnedExpression.type = "BinaryOp"
    /\ ReturnedExpression.op = S1("<")
    /\ ReturnedExpression.right.type = "BinaryOp"
    /\ ReturnedExpression.right.op = S1("-")
    /\ Value(ReturnedExpression.right) = -509
    /\ Value(ReturnedExpression.left) = 500
    /\ cpu.status = 0

FunctionNamed(prog, name) ==
    prog.functions[CHOOSE i \in 1..Len(prog.functions) :
                       prog.functions[i].name = name]

\* The value of an expression in which the names have the values env gives
\* them: a call has the value of the expression its function returns when
\* its parameters have the values of the arguments.
RECURSIVE Denote(_, _, _)
Denote(prog, env, e) ==
    CASE e.type = "Number" -> Wrap(e.value)
      [] e.type = "Identifier" -> env[e.name]
      [] e.type = "UnaryOp" -> Wrap(0 - Denote(prog, env, e.value))
      [] e.type = "BinaryOp" ->
           Apply(e.op, Denote(prog, env, e.left), Denote(prog, env, e.right))
      [] e.type = "FunctionCall" ->
           LET callee == FunctionNamed(prog, e.name)
               body == callee.body.statements
           IN  Denote(prog,
                      [p \in ParamsOf(callee) |->
                          Denote(prog, env,
                                 e.args[CHOOSE i \in 1..Len(callee.params) :
                                            callee.params[i] = p])],
                      body[Len(body)].value)

\* main returns a call of f.
IsCallProgram ==
    /\ Len(ast.functions) >= 2
    /\ ast.functions[1].name = S1("f")
    /\ Len(ast.functions[Len(ast.functions)].body.statements) = 1
    /\ ast.functions[Len(ast.functions)].body.statements[1].value.type
           = "FunctionCall"

TheCall == ast.functions[Len(ast.functions)].body.statements[1].value
NoNames == [p \in {} |-> 0]

\* The values the arguments that are calls of z print, last argument first.
EchoedRightToLeft(call) ==
    LET echoes == SelectSeq(Reverse(call.args),
                            LAMBDA e : e.type = "FunctionCall" /\ e.name = S1("z"))
    IN  Concat([i \in 1..Len(echoes) |-> Str(Denote(ast, NoNames, echoes[i]))])

IsPrefix(s, t) == Len(s) <= Len(t) /\ s = SubSeq(t, 1, Len(s))

Bind(env, name, v) ==
    [x \in DOMAIN env \cup {name} |-> IF x = name THEN v ELSE env[x]]

\* What statements mean, from the names' values, the values printed and the
\* value returned so far: an if statement runs its then block when its
\* condition is not zero and otherwise its else block, if any; a while
\* statement evaluates its condition, and when it is not zero runs its body
\* and then the while statement again; in both cases what follows the
\* statement runs next.  Nothing runs after a return statement.
RECURSIVE Interpret(_, _, _)
Interpret(what, x, S) ==
    IF S.done THEN S
    ELSE CASE what = "block" ->
           IF x = << >> THEN S
           ELSE Interpret("block", Tail(x), Interpret("statement", Head(x), S))
      [] what = "statement" ->
           CASE x.type \in { "VarDecl", "Assignment" } ->
                  [S EXCEPT !.env = Bind(@, x.name, Denote(ast, S.env, x.value))]
             [] x.type = "PrintStatement" ->
                  [S EXCEPT !.printed = Append(@, Denote(ast, S.env, x.value))]
             [] x.type = "IfStatement" ->
                  IF Denote(ast, S.env, x.condition) # 0
                  THEN Interpret("block", x.then_block.statements, S)
                  ELSE IF x.else_block.type # "None"
                  THEN Interpret("block", x.else_block.statements, S)
                  ELSE S
             [] x.type = "WhileStatement" ->
                  IF Denote(ast, S.env, x.condition) # 0
                  THEN Interpret("statement", x,
                                 Interpret("block", x.body.statements, S))
                  ELSE S
             [] x.type = "ReturnStatement" ->
                  [S EXCEPT !.returned = Denote(ast, S.env, x.value),
                            !.done = TRUE]

IsControlProgram ==
    /\ Len(ast.functions) = 1
    /\ Len(ast.functions[1].body.statements) >= 4
    /\ ControlCount("node", ast.functions[1]) >= 1

Meaning ==
    Interpret("block", ast.functions[1].body.statements,
              [env |-> NoNames, printed |-> << >>, returned |-> 0,
               done |-> FALSE])
\* The digits written so far, as numbers.
Written == [i \in 1..Len(cpu.out) |-> cpu.out[i] - 48]

\* C18: the code of if and while statements, nested in each other and in
\* sequence, runs the then block exactly when the condition is not zero and
\* otherwise the else block or nothing, evaluates the condition of a while
\* statement before every iteration, and continues after the statement: the
\* process prints what the statements mean, in that order, nothing else at
\* any time, and exits with the value returned.
C18_ControlFlow ==
    IsControlProgram =>
        /\ (cpu.ip # 0 /\ assembly[cpu.ip].op \in { "syscall", "je" }) =>
              IsPrefix(Written, Meaning.printed)
        /\ cpu.ip = 0 =>
              /\ Exited
              /\ Written = Meaning.printed
              /\ cpu.status = Word(Meaning.returned)

\* The process has exited after a while statement whose body holds another
\* while statement ran three times.
C18_Witness ==
    /\ IsControlProgram
    /\ Exited
    /\ Written = << 3, 2, 1, 2, 1, 1, 9 >>
    /\ cpu.status = 0

StartsWith(s, prefix) == IsPrefix(prefix, s)

\* The next instruction belongs to a function of the program, not to
\* print_number.
InUserCode ==
    /\ cpu.on /\ cpu.ip # 0
    /\ cpu.ip < LabelLine(assembly, PrintNumber)
    /\ cpu.ip < LabelLine(assembly, StartName)

\* The next instruction is the first of a statement that follows complete
\* statements of the body: the condition of a while statement, what follows
\* an if or while statement, or the epilogue of a return statement after its
\* expression.
BetweenStatements ==
    /\ InUserCode
    /\ \/ assembly[cpu.ip] = LeaveLines[1]
       \/ /\ assembly[cpu.ip - 1].op = "label"
          /\ \/ StartsWith(assembly[cpu.ip - 1].a.s, WhileStartPrefix)
             \/ StartsWith(assembly[cpu.ip - 1].a.s, WhileEndPrefix)
             \/ StartsWith(assembly[cpu.ip - 1].a.s, EndifPrefix)

FrameBytes == 256   \* the bytes the prologue of a function reserves

\* C20: the emitted code is stack-balanced: the pushes and pops of every
\* expression and of every call statement, whatever the number of its
\* arguments, cancel out, so that between the statements of a function rsp
\* is where the prologue left it, also after every iteration of a while
\* statement whose body calls a function.
C20_StackBalanced ==
    BetweenStatements => cpu.regs["rsp"] = Word(cpu.regs["rbp"] - FrameBytes)

\* The names generate_function and generate_statement allocate for a
\* function, in the order of the calls of allocate_local: the first
\* Len(param_registers) parameters, then the VarDecl statements of the body in
\* the order their code is emitted.
Allocated(func) ==
    LET defs == SelectSeq(Mentions("node", func.body),
                          LAMBDA m : m.kind = "def")
    IN  (IF Len(func.params) <= Len(param_registers) THEN func.params
         ELSE SubSeq(func.params, 1, Len(param_registers)))
            \o [k \in 1..Len(defs) |-> defs[k].name]

\* local_vars when the code of the i-th function of the program is complete.
LocalsOf(prog, i) ==
    GenerateFunctions(GeneratorInit, SubSeq(prog.functions, 1, i)).local_vars

\* The process is about to execute its first instruction.
AtStart == cpu.on /\ cpu.ip = Settle(assembly, LabelLine(assembly, StartName))

\* The next instruction is a push of expression or call evaluation, or a
\* call: it writes at rsp - 8.
AtPush ==
    /\ InUserCode
    /\ \/ assembly[cpu.ip] = Ins1("push", Reg("rax"))
       \/ assembly[cpu.ip].op = "call"

\* The addresses of the slots of the frame of the running function.
FrameSlots ==
    { Word(cpu.regs["rbp"] - 8 * k) : k \in 1..(FrameBytes \div 8) }

\* The program is one of f, whose body is empty, and main.
HasEmptyFunction ==
    /\ Len(ast.functions) = 2
    /\ ast.functions[1].body.statements = << >>

MaxPad == 27       \* most declarations added to the body of a function

\* The function with n more VarDecl statements, of x1 to xn, at the end of
\* its body.
Padded(func, n) ==
    [func EXCEPT !.body.statements =
         @ \o [k \in 1..n |-> VarDecl(S1("x") \o Str(k), Number(S1("0")))]]

\* The slots are those of the names allocated for the function: the k-th at
\* -8k, distinct names at distinct slots, and all of them from -FrameBytes
\* to -8 exactly when the names are at most FrameBytes / 8.
SlotsInOrder(func, slots) ==
    LET names == Allocated(func)
    IN  /\ DOMAIN slots = { names[k] : k \in 1..Len(names) }
        /\ \A k \in 1..Len(names) : slots[names[k]] = 0 - 8 * k
        /\ \A u \in DOMAIN slots, v \in DOMAIN slots :
               u # v => slots[u] # slots[v]
        /\ (Len(names) <= FrameBytes \div 8)
               = (\A v \in DOMAIN slots :
                     0 - FrameBytes <= slots[v] /\ slots[v] <= 0 - 8)

\* C17: in each function the k-th allocated local (the parameters that get a
\* slot, in declaration order, then the VarDecls in emission order) has home
\* [rbp - 8k], whatever the other functions of the program are; distinct
\* names of a function have distinct slots; with at most 32 locals (and only
\* then) every slot lies in the 256 bytes the prologue reserves, from
\* rbp - 256 to rbp - 8; and no push of expression or call evaluation, and no
\* call, writes to a slot of the frame of the running function.
C17_LocalSlots ==
    /\ AtStart =>
          \A i \in 1..Len(ast.functions) :
              /\ SlotsInOrder(ast.functions[i], LocalsOf(ast, i))
              /\ LocalsOf(ast, i)
                     = GenerateFunctions(GeneratorInit,
                                         << ast.functions[i] >>).local_vars
    /\ (AtStart /\ HasEmptyFunction) =>
          \A i \in 1..Len(ast.functions), n \in 1..MaxPad :
              SlotsInOrder(Padded(ast.functions[i], n),
                           generate_function(GeneratorInit,
                               Padded(ast.functions[i], n)).local_vars)
    /\ AtPush =>
          /\ Word(cpu.regs["rsp"] - 8) \notin FrameSlots
          /\ cpu.regs["rsp"] <= cpu.regs["rbp"] - FrameBytes

\* f of two parameters is about to push the value of i for the sum i + 2:
\* the slots of a, b and i, at rbp - 8, rbp - 16 and rbp - 24, hold 1, 2 and
\* 1, and rsp is at the end of the frame.
C17_Witness ==
    /\ AtPush
    /\ assembly[cpu.ip].op = "push"
    /\ cpu.ip < LabelLine(assembly, Main)
    /\ Allocated(ast.functions[1]) = << S1("a"), S1("b"), S1("i"), S1("j") >>
    /\ cpu.regs["rsp"] = Word(cpu.regs["rbp"] - FrameBytes)
    /\ cpu.mem[Word(cpu.regs["rbp"] - 8)] = 1
    /\ cpu.mem[Word(cpu.regs["rbp"] - 16)] = 2
    /\ cpu.mem[Word(cpu.regs["rbp"] - 24)] = 1
    /\ Word(cpu.regs["rbp"] - 32) \notin DOMAIN cpu.mem

(***************************************************************************)
(* compiler.py: compile_file and main, on a file that may not exist        *)
(***************************************************************************)

PipelineSources ==
    { \* <function> main(){<print>(2+3*4);<return> 0;}
      FunctionText(Main, << >>,
          KwPrint \o Cs(<< "(", "2", "+", "3", "*", "4", ")", ";" >>)
              \o KwReturn \o Cs(<< " ", "0", ";" >>)),
      FunctionText(S1("f"), << >>, S1("!")),              \* no such token
      FunctionText(S1("f"), << >>, Cs(<< "x", ";" >>)),   \* no such statement
      FunctionText(S1("f"), << >>,                        \* not an int literal
          KwReturn \o Cs(<< " ", "U+00B2", ";" >>)),
      FunctionText(S1("f"), << >>,                        \* x is not declared
          KwReturn \o Cs(<< " ", "x", ";" >>)),
      FunctionText(S1("f"), Cs(<< "x", ",", "x" >>), << >>) }
        \cup { << >> } \cup ManyParamSources \cup TwoFunctionSources

\* with open(input_file) as f: source = f.read(), then the lexer is announced.
ReadSource ==
    /\ pc = "read"
    /\ IF inputFile.exists
       THEN /\ source' = inputFile.text
            /\ stdout' = Append(stdout, Progress[1])
            /\ pc' = "lex"
            /\ UNCHANGED << raised, success >>
       ELSE /\ Raise("FileNotFoundError")
            /\ UNCHANGED << source, stdout >>
    /\ UNCHANGED << inputFile, pos, line, column, tokens, ast, assembly,
                    outFile, exitCode, cpu >>

\* with open(output_file, 'w') as f: f.write(assembly); the file may be one
\* that cannot be opened for writing.  Then success is announced and
\* compile_file returns True.
WriteOutput ==
    /\ pc = "write"
    /\ \E writable \in BOOLEAN :
          IF writable
          THEN /\ outFile' = File(assembly)
               /\ stdout' = Append(stdout, Progress[5])
               /\ success' = TRUE
               /\ pc' = "return"
               /\ UNCHANGED raised
          ELSE /\ Raise("OSError")
               /\ UNCHANGED << outFile, stdout >>
    /\ UNCHANGED << inputFile, source, pos, line, column, tokens, ast,
                    assembly, exitCode, cpu >>

ExitStatusZero(ok) == 0
\* 0 if success else 1
ExitStatus(ok) == IF ok THEN 0 ELSE 1

\* main: sys.exit(0 if success else 1)
Exit ==
    /\ pc = "return"
    /\ exitCode' = ExitStatus(success)
    /\ pc' = "exited"
    /\ UNCHANGED << inputFile, source, pos, line, column, tokens, ast,
                    assembly, stdout, raised, outFile, success, cpu >>

Init ==
    /\ pc = "read"
    /\ inputFile \in { NoFile } \cup { File(text) : text \in PipelineSources }
    /\ source = << >>
    /\ pos = 0 /\ line = 1 /\ column = 1
    /\ tokens = << >>
    /\ ast = NoAst
    /\ assembly = << >>
    /\ stdout = << >>
    /\ raised = "none"
    /\ outFile = NoFile
    /\ success = FALSE
    /\ exitCode = -1
    /\ cpu = CpuOff

Next ==
    \/ ReadSource \/ LexStep \/ LexFinish \/ ParseStage \/ AnalyzeStage
    \/ GenerateStage \/ WriteOutput \/ Exit

Spec == Init /\ [][Next]_vars

\* C1: the stages are announced and run in the order lexer, parser,
\* analyzer, generator, each on the result of the one before; once a stage
\* or the reading of the input has failed, no later stage has run, the
\* output file is not written and the exit code is 1; the exit code is 0
\* only after the four stages have succeeded and the output was written.
C1_StagesInOrder ==
    /\ IsPrefix(stdout, Progress)
    /\ pc = "parse" => tokenize(source) = [err |-> "none", tokens |-> tokens]
    /\ pc = "analyze" => parse(tokens) = [err |-> "none", node |-> ast]
    /\ pc = "generate" => analyze(ast).err = "none"
    /\ pc = "write" =>
          /\ generate(ast).err = "none"
          /\ assembly = generate(ast).output \o add_print_helper
    /\ raised # "none" =>
          /\ pc \in { "return", "exited" }
          /\ ~success
          /\ outFile = NoFile
          /\ Len(stdout) < 2 => tokens = << >> \/ tokens[Len(tokens)].type # "EOF"
          /\ Len(stdout) < 3 => ast = NoAst
          /\ raised # "OSError" => assembly = << >>
          /\ pc = "exited" => exitCode = 1
    /\ pc = "exited" => exitCode \in { 0, 1 }
    /\ (pc = "exited" /\ exitCode = 0) =>
          /\ raised = "none"
          /\ stdout = Progress
          /\ tokens = tokenize(source).tokens
          /\ ast = parse(tokens).node
          /\ analyze(ast).err = "none"
          /\ outFile = File(generate(ast).output \o add_print_helper)

\* The compiler has exited with code 0 for a program that prints.
C1_Witness ==
    /\ pc = "exited"
    /\ exitCode = 0
    /\ outFile.exists
    /\ \E i \in 1..Len(outFile.text) :
          outFile.text[i] = Ins1("call", Sym(PrintNumber))

=============================================================================
